---------------------------- MODULE Spec2Model ----------------------------
(***************************************************************************)
(* A model of yosai's AccountStoreRealm (yosai/realm/realm.py) and of its  *)
(* NativeSecurityManager / AbstractRememberMeManager                       *)
(* (yosai/core/mgt/mgt.py).                                                *)
(*                                                                         *)
(* The code is synchronous: every public method is one action.  A method   *)
(* is an operator from the state it reads to a result record               *)
(*     [st |-> state after, exc |-> exception raised or NoExc,             *)
(*      ret |-> value returned, ...]                                       *)
(* so that exceptions, early returns and nested calls are composed as the  *)
(* code composes them.                                                     *)
(***************************************************************************)
EXTENDS Integers, Sequences, FiniteSets, TLC

\* ------------------------------------------------------------------ bounds
MaxUsers == 2

\* ------------------------------------------------------------ common values
\* Python's None, for every optional object (all objects are records or functions)
None == [none |-> TRUE]
NoExc == "NoExc"

Identifiers == 1..MaxUsers
Passwords == {"pw1", "pw2"}

\* an Account of the account store: its identifier and its stored credentials
Accounts == [identifier : Identifiers, credentials : Passwords]
\* a UsernamePasswordToken as submitted by a caller
Tokens == [identifier : Identifiers, credentials : Passwords]

\* the contents an account store can have: at most one account per identifier
StoreContents ==
    {s \in [Identifiers -> Accounts \cup {None}] :
        \A i \in Identifiers : s[i] # None => s[i].identifier = i}

\* the DefaultCredentialsCacheHandler a realm can be given
CCH == [handler |-> "DefaultCredentialsCacheHandler"]

\* What the collaborators of one realm call do: the cache and key resolvers
\* of the cache handler and the account store either work or fail.
RealmFaults == {"ok", "get_fails", "key_absent", "put_fails", "store_unavailable"}

VARIABLES
    account_store,              \* AccountStoreRealm._account_store: None or its contents
    credentials_cache_handler,  \* AccountStoreRealm._credentials_cache_handler: None or CCH
    credentials_cache,          \* the cache behind the handler: key -> Account or None
    realm_call,                 \* the last realm call: its arguments and its outcome
    authz_store,                \* the account store's roles and permissions per identifiers
    authorization_cache_handler,\* AccountStoreRealm._authorization_cache_handler: None or ACH
    authorization_cache,        \* the cache behind that handler: identifiers -> info or None
    authz_call,                 \* the last authorization call: its arguments and its outcome
    permission_resolver,        \* AccountStoreRealm._permission_resolver: None or PR
    callers,                    \* the get_authorization_info calls in progress, per caller
    grant_phase                 \* per identifiers: have the grants changed, was the cache cleared since

authz_vars == <<authz_store, authorization_cache_handler, authorization_cache,
                authz_call, permission_resolver, callers, grant_phase>>

realm_vars == <<account_store, credentials_cache_handler, credentials_cache, realm_call,
                authz_vars>>

\* ---------------------------------------------------------------- the realm

\* the part of the realm's state that a call reads and writes
RealmState ==
    [account_store |-> account_store,
     cch |-> credentials_cache_handler,
     cache |-> credentials_cache]

Raise(st, e) == [st |-> st, exc |-> e, ret |-> None]
Return(st, v) == [st |-> st, exc |-> NoExc, ret |-> v]

\* CacheKeyResolver.get_cache_key: the key of a token or account id is the
\* identifier; a resolver that cannot resolve gives None
get_cache_key(identifier, fault) ==
    IF fault = "key_absent" THEN None ELSE [key |-> identifier]

\* CredentialsMatcher.credentials_match: the stored credentials equal the
\* submitted ones; no account matches nothing
credentials_match(authc_token, account) ==
    /\ account # None
    /\ account.credentials = authc_token.credentials

\* DefaultCredentialsCacheHandler.get_cached_credentials
get_cached_credentials(st, authc_token, fault) ==
    IF fault = "get_fails"
    THEN Raise(st, "GetCachedCredentialsException")
    ELSE LET key == get_cache_key(authc_token.identifier, fault)
         IN  IF key = None THEN Return(st, None) ELSE Return(st, st.cache[key.key])

\* cache_credentials that gives up silently when it cannot write
cache_credentials_best_effort(st, authc_token, account, fault) ==
    LET key == get_cache_key(authc_token.identifier, fault)
    IN  IF key = None \/ fault = "put_fails"
        THEN Return(st, None)
        ELSE Return([st EXCEPT !.cache[key.key] = account], None)

\* DefaultCredentialsCacheHandler.cache_credentials
cache_credentials(st, authc_token, account, fault) ==
    LET key == get_cache_key(authc_token.identifier, fault)
    IN  IF key = None
        THEN Raise(st, "CacheCredentialsException")
        ELSE IF fault = "put_fails"
        THEN Raise(st, "CacheCredentialsException")
        ELSE Return([st EXCEPT !.cache[key.key] = account], None)

\* a lookup that finds no account where there is no account store
get_account_none_without_store(st, authc_token, fault) ==
    IF st.account_store = None
    THEN Return(st, None)
    ELSE IF fault = "store_unavailable"
    THEN Raise(st, "StoreUnavailable")
    ELSE Return(st, st.account_store[authc_token.identifier])

\* AccountStore.get_account
get_account(st, authc_token, fault) ==
    IF st.account_store = None
    THEN Raise(st, "AttributeError")
    ELSE IF fault = "store_unavailable"
    THEN Raise(st, "StoreUnavailable")
    ELSE Return(st, st.account_store[authc_token.identifier])

\* get_credentials that takes a missing record for an error
get_credentials_record_required(st, authc_token, fault) ==
    LET cached == IF st.cch # None
                  THEN get_cached_credentials(st, authc_token, fault)
                  ELSE Return(st, None)
        with(r, n) == [st |-> r.st, exc |-> r.exc, ret |-> r.ret, store_calls |-> n]
    IN  IF cached.exc # NoExc THEN with(cached, 0)
        ELSE IF cached.ret # None THEN with(cached, 0)
        ELSE LET got == get_account(st, authc_token, fault)
             IN  IF got.exc = "AttributeError"
                 THEN with(Raise(st, "RealmMisconfiguredException"), 0)
                 ELSE IF got.exc # NoExc THEN with(got, 1)
                 ELSE IF got.ret # None /\ st.cch # None
                 THEN LET put == cache_credentials(st, authc_token, got.ret, fault)
                      IN  IF put.exc # NoExc THEN with(put, 1)
                          ELSE with(Return(put.st, got.ret), 1)
                 ELSE IF got.ret = None THEN with(Raise(st, "AccountNotFound"), 1)
                 ELSE with(got, 1)

\* get_credentials that asks the account store without looking in the cache
get_credentials_always_fetching(st, authc_token, fault) ==
    LET with(r, n) == [st |-> r.st, exc |-> r.exc, ret |-> r.ret, store_calls |-> n]
        got == get_account(st, authc_token, fault)
    IN  IF got.exc = "AttributeError"
        THEN with(Raise(st, "RealmMisconfiguredException"), 0)
        ELSE IF got.exc # NoExc THEN with(got, 1)
        ELSE IF got.ret # None /\ st.cch # None
        THEN LET put == cache_credentials(st, authc_token, got.ret, fault)
             IN  IF put.exc # NoExc THEN with(put, 1)
                 ELSE with(Return(put.st, got.ret), 1)
        ELSE with(got, 1)

\* AccountStoreRealm.get_credentials; store_calls counts the calls of
\* account_store.get_account that reached a configured store
get_credentials(st, authc_token, fault) ==
    LET cached == IF st.cch # None
                  THEN get_cached_credentials(st, authc_token, fault)
                  ELSE Return(st, None)
        with(r, n) == [st |-> r.st, exc |-> r.exc, ret |-> r.ret, store_calls |-> n]
    IN  IF cached.exc # NoExc THEN with(cached, 0)
        ELSE IF cached.ret # None THEN with(cached, 0)
        ELSE LET got == get_account(st, authc_token, fault)
             IN  IF got.exc = "AttributeError"
                 THEN with(Raise(st, "RealmMisconfiguredException"), 0)
                 ELSE IF got.exc # NoExc THEN with(got, 1)
                 ELSE IF got.ret # None /\ st.cch # None
                 THEN LET put == cache_credentials(st, authc_token, got.ret, fault)
                      IN  IF put.exc # NoExc THEN with(put, 1)
                          ELSE with(Return(put.st, got.ret), 1)
                 ELSE with(got, 1)

\* assert_credentials_match that compares only when there is an account
assert_credentials_match_unless_absent(st, authc_token, account) ==
    IF account # None /\ ~ credentials_match(authc_token, account)
    THEN Raise(st, "IncorrectCredentialsException")
    ELSE Return(st, None)

\* AccountStoreRealm.assert_credentials_match
assert_credentials_match(st, authc_token, account) ==
    IF ~ credentials_match(authc_token, account)
    THEN Raise(st, "IncorrectCredentialsException")
    ELSE Return(st, None)

\* AccountStoreRealm.clear_cached_credentials: its body is
\*     cch.clear_cache(identifiers)
\* and the method binds no name cch (no parameter, no local, no module
\* global), so evaluating it raises NameError before any cache is touched
clear_cached_credentials(st, identifiers) ==
    Raise(st, "NameError")

\* AccountStoreRealm.authenticate_account; matched records what the
\* credentials matcher reported ("match", "mismatch"), "not_called" when it
\* was not reached
authenticate_account(st, authc_token, fault) ==
    LET creds == get_credentials(st, authc_token, fault)
        out(r, m, acct) == [st |-> r.st, exc |-> r.exc, ret |-> r.ret,
                            matched |-> m, account |-> acct,
                            store_calls |-> creds.store_calls]
    IN  IF creds.exc # NoExc THEN out(creds, "not_called", None)
        ELSE LET account == creds.ret
                 m == IF credentials_match(authc_token, account)
                      THEN "match" ELSE "mismatch"
                 asserted == assert_credentials_match(creds.st, authc_token, account)
             IN  IF asserted.exc # NoExc THEN out(asserted, m, account)
                 ELSE LET cleared == clear_cached_credentials(asserted.st,
                                                              authc_token.identifier)
                      IN  IF cleared.exc # NoExc THEN out(cleared, m, account)
                          ELSE out(Return(cleared.st, account), m, account)

\* ---------------------------------------------------------- authorization

MaxStoredPermissions == 2
MaxRequested == 1

Wildcard == "*"
Domains == {"files", "network"}
\* the permissions an account can be granted, and those a caller asks about
Permissions == [domain : Domains \cup {Wildcard}, action : {"read", "write"}]
RequestedPermissions == [domain : Domains, action : {"read"}]
Roles == {"admin", "editor", "superuser"}

\* the authorization cache handler a realm can be given
ACH == [handler |-> "AuthorizationCacheHandler"]

\* identifiers are passed either as a str or as an IdentifierCollection
IdentifierKinds == {"str", "IdentifierCollection"}

\* an account's record in the account store, as get_authz_info returns it
Grants ==
    {[roles |-> r, permissions |-> p] :
        r \in SUBSET Roles,
        p \in {q \in SUBSET Permissions : Cardinality(q) <= MaxStoredPermissions}}

\* the part of the realm's state that an authorization call reads and writes
AuthzState ==
    [account_store |-> account_store,
     authz_store |-> authz_store,
     ach |-> authorization_cache_handler,
     cache |-> authorization_cache,
     permission_resolver |-> permission_resolver]

\* the result of an authorization call: info is the AuthorizationInfo that
\* get_authorization_info gave it (None if it gave none), store_calls the
\* number of account_store.get_authz_info calls
AuthzResult(st, exc, ret, info, store_calls) ==
    [st |-> st, exc |-> exc, ret |-> ret, info |-> info, store_calls |-> store_calls]

\* Permission.implies
implies(authz_perm, reqstd_perm) ==
    /\ authz_perm.domain \in {Wildcard, reqstd_perm.domain}
    /\ authz_perm.action = reqstd_perm.action

\* IndexedAuthorizationInfo(roles, permissions)
IndexedAuthorizationInfo(roles, permissions) ==
    [roleids |-> roles, permissions |-> permissions]

\* IndexedAuthorizationInfo.get_permission(domain): the permissions indexed
\* under the domain, none for a domain without entries
get_permission(authz_info, domain) ==
    {p \in authz_info.permissions : p.domain = domain}

\* "..." + identifiers + "]" is defined for a str only
concatenates(kind) == kind = "str"

\* AuthorizationCacheHandler.get_cached_authorization_info
get_cached_authorization_info(st, identifiers) == st.cache[identifiers]

\* AuthorizationCacheHandler.cache_authorization_info
cache_authorization_info(st, identifiers, authz_info) ==
    [st EXCEPT !.cache[identifiers] = authz_info]

\* get_authorization_info that looks into the cache whether or not a handler
\* is set
get_authorization_info_cache_reading(st, identifiers, kind) ==
    LET cached == get_cached_authorization_info(st, identifiers)
    IN  IF st.ach # None /\ ~ concatenates(kind)
        THEN AuthzResult(st, "TypeError", None, None, 0)
        ELSE IF cached # None
        THEN AuthzResult(st, NoExc, cached, cached, 0)
        ELSE IF st.account_store = None
        THEN AuthzResult(st, "AttributeError", None, None, 0)
        ELSE LET account == st.authz_store[identifiers]
             IN  IF account = None
                 THEN AuthzResult(st, "AttributeError", None, None, 1)
                 ELSE LET authz_info == IndexedAuthorizationInfo(account.roles,
                                                                 account.permissions)
                      IN  IF st.ach = None
                          THEN AuthzResult(st, NoExc, authz_info, authz_info, 1)
                          ELSE AuthzResult(cache_authorization_info(st, identifiers,
                                                                    authz_info),
                                           NoExc, authz_info, authz_info, 1)

\* AccountStoreRealm.get_authorization_info
get_authorization_info(st, identifiers, kind) ==
    LET cached == IF st.ach # None
                  THEN get_cached_authorization_info(st, identifiers)
                  ELSE None
    IN  IF st.ach # None /\ ~ concatenates(kind)
        THEN AuthzResult(st, "TypeError", None, None, 0)
        ELSE IF cached # None
        THEN AuthzResult(st, NoExc, cached, cached, 0)
        ELSE IF st.account_store = None
        THEN AuthzResult(st, "AttributeError", None, None, 0)
        ELSE LET account == st.authz_store[identifiers]
             IN  IF account = None
                 THEN AuthzResult(st, "AttributeError", None, None, 1)
                 ELSE LET authz_info == IndexedAuthorizationInfo(account.roles,
                                                                 account.permissions)
                      IN  IF st.ach = None
                          THEN AuthzResult(st, NoExc, authz_info, authz_info, 1)
                          ELSE IF ~ concatenates(kind)
                          THEN AuthzResult(st, "TypeError", None, None, 1)
                          ELSE AuthzResult(cache_authorization_info(st, identifiers,
                                                                    authz_info),
                                           NoExc, authz_info, authz_info, 1)

\* get_authzd_permissions without the permissions of the wildcard domain
get_authzd_permissions_of_domain(authz_info, permission) ==
    get_permission(authz_info, permission.domain)

\* get_authzd_permissions without the filter by domain
get_authzd_permissions_unfiltered(authz_info, permission) ==
    authz_info.permissions

\* AccountStoreRealm.get_authzd_permissions: the frozenset of the
\* permissions under the wildcard domain and under the requested domain (a
\* requested permission has one domain, which next(iter(permission.domain))
\* gives); with an authz_info and a permission that has a domain nothing in
\* the try block raises
get_authzd_permissions(authz_info, permission) ==
    LET wildcard_perms == get_permission(authz_info, Wildcard)
        requested_domain == permission.domain
        domain_perms == get_permission(authz_info, requested_domain)
    IN  wildcard_perms \cup domain_perms

\* a pass that grants only what every candidate implies
permitted_pair_by_all(authz_info, reqstd_perm) ==
    [permission |-> reqstd_perm,
     is_permitted |-> \A authz_perm \in get_authzd_permissions(authz_info, reqstd_perm) :
                          implies(authz_perm, reqstd_perm),
     candidates |-> get_authzd_permissions(authz_info, reqstd_perm)]

\* one pass of the loop of is_permitted: the pair yielded for reqstd_perm,
\* with the candidates that were open to the implication test
permitted_pair(authz_info, reqstd_perm) ==
    LET authorized_perms == get_authzd_permissions(authz_info, reqstd_perm)
    IN  [permission |-> reqstd_perm,
         is_permitted |-> \E authz_perm \in authorized_perms :
                              implies(authz_perm, reqstd_perm),
         candidates |-> authorized_perms]

\* the longest list of string-formatted permissions a caller asks about
MaxStrings == 2

\* the PermissionResolver a realm can be given
PR == [resolver |-> "PermissionResolver"]

\* a string-formatted permission, a str where a Permission is a record of
\* domain and action
StringPermissions == {[str |-> "files:read"], [str |-> "network:read"]}

\* isinstance(permission, str)
is_str(permission) == DOMAIN permission = {"str"}

\* PermissionResolver.resolve_permission: the Permission that the string
\* "domain:action" stands for
resolve_permission(perm) ==
    CASE perm.str = "files:read" -> [domain |-> "files", action |-> "read"]
      [] perm.str = "network:read" -> [domain |-> "network", action |-> "read"]

\* AccountStoreRealm.resolve_permissions: the set of the resolved
\* permissions; without a resolver the AttributeError is caught and the
\* empty set returned
resolve_permissions(st, string_perms) ==
    IF st.permission_resolver = None
    THEN {}
    ELSE {resolve_permission(string_perms[k]) : k \in 1..Len(string_perms)}

\* the elements of a set in the order in which a for loop visits them; the
\* order of a set is fixed and not specified
RECURSIVE iteration(_)
iteration(perms) ==
    IF perms = {} THEN <<>>
    ELSE LET first == CHOOSE p \in perms : TRUE
         IN  <<first>> \o iteration(perms \ {first})

\* AccountStoreRealm.is_permitted, a generator: permission_s is a non-empty
\* list of Permission objects or of strings, consumed the number of pairs
\* the caller asks for; nothing runs before the first pair is asked for,
\* and the generator ends when the requested permissions are used up
is_permitted(st, identifiers, kind, permission_s, consumed) ==
    IF consumed = 0
    THEN AuthzResult(st, NoExc, <<>>, None, 0)
    ELSE LET requested_perms ==
                 IF is_str(permission_s[1])
                 THEN iteration(resolve_permissions(st, permission_s))
                 ELSE permission_s
             got == get_authorization_info(st, identifiers, kind)
             yielded == IF consumed < Len(requested_perms)
                        THEN consumed ELSE Len(requested_perms)
         IN  IF got.exc # NoExc
             THEN [got EXCEPT !.ret = <<>>]
             ELSE [got EXCEPT !.ret = [k \in 1..yielded |->
                                          permitted_pair(got.info, requested_perms[k])]]

\* has_role with every pair telling whether all the requested roles are held
has_role_of_all(st, identifiers, kind, roleid_s, consumed) ==
    IF consumed = {}
    THEN AuthzResult(st, NoExc, {}, None, 0)
    ELSE LET got == get_authorization_info(st, identifiers, kind)
         IN  IF got.exc # NoExc
             THEN [got EXCEPT !.ret = {}]
             ELSE [got EXCEPT !.ret = {[roleid |-> roleid,
                                        hasrole |-> roleid_s \subseteq got.info.roleids] :
                                           roleid \in consumed}]

\* AccountStoreRealm.has_role, a generator: roleid_s is a non-empty set of
\* role ids, consumed the role ids whose pairs the caller has taken (a set
\* is iterated in no particular order)
has_role(st, identifiers, kind, roleid_s, consumed) ==
    IF consumed = {}
    THEN AuthzResult(st, NoExc, {}, None, 0)
    ELSE LET got == get_authorization_info(st, identifiers, kind)
         IN  IF got.exc # NoExc
             THEN [got EXCEPT !.ret = {}]
             ELSE [got EXCEPT !.ret = {[roleid |-> roleid,
                                        hasrole |-> {roleid} \subseteq got.info.roleids] :
                                           roleid \in consumed}]

\* has_all_roles that is content with one of the requested roles
has_all_roles_any(st, identifiers, kind, roleid_s) ==
    LET got == get_authorization_info(st, identifiers, kind)
    IN  IF got.exc # NoExc
        THEN got
        ELSE [got EXCEPT !.ret = [result |-> roleid_s \cap got.info.roleids # {}]]

\* AccountStoreRealm.has_all_roles
has_all_roles(st, identifiers, kind, roleid_s) ==
    LET got == get_authorization_info(st, identifiers, kind)
    IN  IF got.exc # NoExc
        THEN got
        ELSE [got EXCEPT !.ret = [result |-> roleid_s \subseteq got.info.roleids]]

\* AccountStoreRealm.clear_cached_authorization_info: its body is
\*     ach.clear_cache(identifiers)
\* and the method binds no name ach, so evaluating it raises NameError
\* before any cache is touched
clear_cached_authorization_info(st, identifiers) ==
    AuthzResult(st, "NameError", None, None, 0)

\* AccountStoreRealm.do_clear_cache: clear_cached_credentials, then
\* clear_cached_authorization_info
do_clear_cache(st, identifiers) ==
    LET credentials_cleared == clear_cached_credentials(st, identifiers)
    IN  IF credentials_cleared.exc # NoExc
        THEN AuthzResult(credentials_cleared.st, credentials_cleared.exc, None, None, 0)
        ELSE clear_cached_authorization_info(credentials_cleared.st, identifiers)

\* ------------------------------------------------- the security manager
\* (yosai/core/mgt/mgt.py)

MaxSessions == 1

SessionIds == 1..MaxSessions
Keys == {"k1", "k2"}

\* an account id / identifier collection as the security manager handles it
AccountIds == {[id |-> i] : i \in Identifiers}
\* a session reference held by a subject or a context
SessionRefs == {[session_id |-> n] : n \in SessionIds}
\* an AuthenticationToken, as far as the security manager reads it
AuthcTokens == [is_remember_me : BOOLEAN]

\* the remember-me manager and the security manager, as references
RMM == [manager |-> "RememberMeManager"]
SM == [manager |-> "NativeSecurityManager"]

\* a DelegatingSubject
Subjects ==
    [identifiers : AccountIds \cup {None}, authenticated : BOOLEAN,
     remembered : BOOLEAN, session : SessionRefs \cup {None}]

VARIABLES
    remember_me_manager,    \* NativeSecurityManager.remember_me_manager: None or RMM
    encryption_cipher_key,  \* AbstractRememberMeManager.encryption_cipher_key
    decryption_cipher_key,  \* AbstractRememberMeManager.decryption_cipher_key
    remembered_identity,    \* what the persistence hooks hold: None or a ciphertext
    subject_store,          \* what SubjectStore holds: None or the saved subject state
    sessions,               \* the session manager's sessions that are valid
    subject,                \* the caller's Subject object
    sm_call                 \* the last step: a security manager call and its outcome

sm_vars == <<remember_me_manager, encryption_cipher_key, decryption_cipher_key,
             remembered_identity, subject_store, sessions, subject, sm_call>>

\* the state a security manager call reads and writes.  trace is the
\* sequence of calls it made, in order; context is the SubjectContext that
\* create_subject works on, caller_context the caller's own context object,
\* and aliased says that the two are one object
SMState ==
    [rmm |-> remember_me_manager,
     encryption_cipher_key |-> encryption_cipher_key,
     decryption_cipher_key |-> decryption_cipher_key,
     remembered_identity |-> remembered_identity,
     subject_store |-> subject_store,
     sessions |-> sessions,
     subject |-> subject,
     context |-> None,
     caller_context |-> None,
     aliased |-> FALSE,
     trace |-> <<>>]

\* exceptions are objects: their type, the account id they carry, who raised them
Exception(type, account_id, raised_by) ==
    [type |-> type, account_id |-> account_id, raised_by |-> raised_by]
NoException == [type |-> "NoExc"]

SRaise(st, e) == [st |-> st, exc |-> e, ret |-> None]
SReturn(st, v) == [st |-> st, exc |-> NoException, ret |-> v]

Ok(r) == r.exc = NoException
\* statement sequencing: the next statement runs unless the previous raised
Then(r, Body(_)) == IF Ok(r) THEN Body(r) ELSE r
\* try: r  except Exception: Handler
Catch(r, Handler(_)) == IF Ok(r) THEN r ELSE Handler(r)
\* try: r, then the rest of the try body  except: Handler (of r's exception)
Handle(r, Body(_), Handler(_)) == IF Ok(r) THEN Body(r) ELSE Handler(r)
\* an except clause that logs and goes on
Logged(r) == SReturn(r.st, None)

Called(st, event) == [st EXCEPT !.trace = Append(@, event)]
Event(name) == [call |-> name]

RECURSIVE CountCalls(_, _)
CountCalls(trace, name) ==
    IF trace = <<>> THEN 0
    ELSE (IF Head(trace).call = name THEN 1 ELSE 0) + CountCalls(Tail(trace), name)

\* the position of the first call of that name in the trace, 0 if none
RECURSIVE FirstCall(_, _)
FirstCall(trace, name) ==
    IF trace = <<>> THEN 0
    ELSE IF Head(trace).call = name THEN 1
    ELSE LET k == FirstCall(Tail(trace), name) IN IF k = 0 THEN 0 ELSE k + 1

\* ---- the serialization codec and the cipher (Fernet)

\* what SerializationManager.serialize makes of identifiers
serialized_form(identifiers) == [serialized |-> identifiers]

\* what SerializationManager.deserialize makes of bytes
deserialized_form(bytes) == bytes.serialized

\* Fernet(key).encrypt
fernet_encrypt(key, bytes) == [key |-> key, plaintext |-> bytes, intact |-> TRUE]

\* Fernet(key).decrypt: None stands for InvalidToken (another key, or a
\* token that was changed)
fernet_decrypt(key, token) ==
    IF token.key = key /\ token.intact THEN token.plaintext ELSE None

\* serialization_manager.serialize(identifiers)
serialize(st, identifiers, faults) ==
    IF "serialize_fails" \in faults
    THEN SRaise(Called(st, Event("serialize")),
                Exception("SerializationException", None, "serialize"))
    ELSE SReturn(Called(st, Event("serialize")), serialized_form(identifiers))

\* serialization_manager.deserialize(decrypted)
deserialize(st, bytes, faults) ==
    IF "deserialize_fails" \in faults
    THEN SRaise(Called(st, Event("deserialize")),
                Exception("SerializationException", None, "deserialize"))
    ELSE SReturn(Called(st, Event("deserialize")), deserialized_form(bytes))

\* ---- AbstractRememberMeManager

\* AbstractRememberMeManager.forget_identity (abstract: the persistence hook)
forget_identity(st, faults) ==
    IF "forget_fails" \in faults
    THEN SRaise(Called(st, Event("forget_identity")),
                Exception("ForgetException", None, "forget_identity"))
    ELSE SReturn([Called(st, Event("forget_identity")) EXCEPT
                      !.remembered_identity = None], None)

\* AbstractRememberMeManager.remember_encrypted_identity (abstract: the
\* persistence hook)
remember_encrypted_identity(st, encrypted, faults) ==
    IF "remember_fails" \in faults
    THEN SRaise(Called(st, [call |-> "remember_encrypted_identity",
                            value |-> encrypted]),
                Exception("RememberException", None, "remember_encrypted_identity"))
    ELSE SReturn([Called(st, [call |-> "remember_encrypted_identity",
                              value |-> encrypted]) EXCEPT
                      !.remembered_identity = encrypted], None)

\* AbstractRememberMeManager.get_remembered_encrypted_identity (abstract: the
\* persistence hook)
get_remembered_encrypted_identity(st, faults) ==
    IF "fetch_fails" \in faults
    THEN SRaise(Called(st, Event("get_remembered_encrypted_identity")),
                Exception("FetchException", None, "get_remembered_encrypted_identity"))
    ELSE SReturn(Called(st, Event("get_remembered_encrypted_identity")),
                 st.remembered_identity)

\* AbstractRememberMeManager.encrypt
encrypt(st, serialized) ==
    SReturn(st, fernet_encrypt(st.encryption_cipher_key, serialized))

\* AbstractRememberMeManager.decrypt
decrypt(st, encrypted) ==
    IF fernet_decrypt(st.decryption_cipher_key, encrypted) = None
    THEN SRaise(st, Exception("InvalidToken", None, "decrypt"))
    ELSE SReturn(st, fernet_decrypt(st.decryption_cipher_key, encrypted))

\* AbstractRememberMeManager.get_identity_to_remember
get_identity_to_remember(subj, account_id) == account_id

\* convert_identifiers_to_bytes that serializes and does not encrypt
convert_identifiers_to_bytes_unencrypted(st, identifiers, faults) ==
    serialize(st, identifiers, faults)

\* AbstractRememberMeManager.convert_identifiers_to_bytes
convert_identifiers_to_bytes(st, identifiers, faults) ==
    Then(serialize(st, identifiers, faults),
         LAMBDA serialized : encrypt(serialized.st, serialized.ret))

\* convert_bytes_to_identifiers that returns the decrypted bytes as they are
convert_bytes_to_identifiers_undecoded(st, encrypted, faults) ==
    decrypt(st, encrypted)

\* AbstractRememberMeManager.convert_bytes_to_identifiers
convert_bytes_to_identifiers(st, encrypted, faults) ==
    Then(decrypt(st, encrypted),
         LAMBDA decrypted : deserialize(decrypted.st, decrypted.ret, faults))

\* AbstractRememberMeManager.remember_identity
remember_identity(st, subj, authc_token, account_id, faults) ==
    Then(convert_identifiers_to_bytes(
             Called(st, [call |-> "remember_identity", account_id |-> account_id]),
             get_identity_to_remember(subj, account_id), faults),
         LAMBDA encrypted :
             remember_encrypted_identity(encrypted.st, encrypted.ret, faults))

\* on_successful_login that remembers whatever the token asks
rmm_on_successful_login_always(st, subj, authc_token, account_id, faults) ==
    Then(forget_identity(st, faults),
         LAMBDA forgot :
             remember_identity(forgot.st, subj, authc_token, account_id, faults))

\* on_successful_login that leaves the stored identity alone when the token
\* does not ask to be remembered
rmm_on_successful_login_keeping(st, subj, authc_token, account_id, faults) ==
    IF authc_token.is_remember_me
    THEN Then(forget_identity(st, faults),
              LAMBDA forgot :
                  remember_identity(forgot.st, subj, authc_token, account_id, faults))
    ELSE SReturn(st, None)

\* AbstractRememberMeManager.on_successful_login
rmm_on_successful_login(st, subj, authc_token, account_id, faults) ==
    Then(forget_identity(st, faults),
         LAMBDA forgot :
             IF authc_token.is_remember_me
             THEN remember_identity(forgot.st, subj, authc_token, account_id, faults)
             ELSE SReturn(forgot.st, None))

\* AbstractRememberMeManager.on_remembered_identifiers_failure
on_remembered_identifiers_failure(st, exc, faults) ==
    Then(forget_identity(st, faults), LAMBDA forgot : SRaise(forgot.st, exc))

\* AbstractRememberMeManager.get_remembered_identifiers
get_remembered_identifiers(st, faults) ==
    Catch(Then(get_remembered_encrypted_identity(st, faults),
               LAMBDA fetched :
                   IF fetched.ret # None
                   THEN convert_bytes_to_identifiers(fetched.st, fetched.ret, faults)
                   ELSE SReturn(fetched.st, None)),
          LAMBDA failed : on_remembered_identifiers_failure(failed.st, failed.exc, faults))

\* AbstractRememberMeManager.on_failed_login
rmm_on_failed_login(st, subj, authc_token, ae, faults) == forget_identity(st, faults)

\* on_logout that forgets only the identity of a subject that has one
rmm_on_logout_identified(st, subj, faults) ==
    IF subj.identifiers # None THEN forget_identity(st, faults) ELSE SReturn(st, None)

\* AbstractRememberMeManager.on_logout
rmm_on_logout(st, subj, faults) == forget_identity(st, faults)

\* ---- SubjectContext and DelegatingSubject (yosai.core.subject)

\* a SubjectContext: an attribute bag, every attribute optional
NewContext ==
    [security_manager |-> None, session |-> None, session_id |-> None,
     identifiers |-> None, authenticated |-> FALSE, remembered |-> FALSE,
     account_id |-> None, subject |-> None, authentication_token |-> None]

\* an attribute assignment on the context that create_subject works on
SetContext(st, context) ==
    [st EXCEPT !.context = context,
               !.caller_context = IF st.aliased THEN context ELSE @]

\* SubjectContext.resolve_security_manager
ctx_resolve_security_manager(context) == context.security_manager

\* SubjectContext.resolve_session: the context's session, else the session
\* of the existing subject
ctx_resolve_session(context) ==
    IF context.session # None THEN context.session
    ELSE IF context.subject # None THEN context.subject.session
    ELSE None

\* SubjectContext.resolve_identifiers: the context's identifiers, else the
\* account id of the login, else the identifiers of the existing subject
ctx_resolve_identifiers(context) ==
    IF context.identifiers # None THEN context.identifiers
    ELSE IF context.account_id # None THEN context.account_id
    ELSE IF context.subject # None THEN context.subject.identifiers
    ELSE None

\* SubjectContext.resolve_authenticated
ctx_resolve_authenticated(context) == context.authenticated

\* ---- NativeSecurityManager

\* NativeSecurityManager.create_subject_context: SubjectContext(yosai, self)
create_subject_context(existing_subject) ==
    [NewContext EXCEPT !.security_manager = SM]

\* a copy that is the caller's object itself
copy_context_same_object(st) == [st EXCEPT !.context = st.caller_context]

\* copy.copy(subject_context): another object with the same attributes
copy_context(st) == [st EXCEPT !.context = st.caller_context, !.aliased = FALSE]

\* NativeSecurityManager.save
save(st, subj, which) ==
    SReturn([Called(st, [call |-> "save", subject |-> subj, object |-> which])
                 EXCEPT !.subject_store = subj], None)

\* NativeSecurityManager.delete
delete(st, subj, faults) ==
    IF "delete_fails" \in faults
    THEN SRaise(Called(st, Event("delete")), Exception("DeleteException", None, "delete"))
    ELSE SReturn([Called(st, Event("delete")) EXCEPT !.subject_store = None], None)

\* NativeSecurityManager.get_session: the session manager's session for the
\* key, InvalidSessionException when it has none that is valid
get_session(st, session_key) ==
    IF session_key.session_id \in st.sessions
    THEN SReturn(Called(st, Event("get_session")), session_key)
    ELSE SRaise(Called(st, Event("get_session")),
                Exception("InvalidSessionException", None, "get_session"))

\* NativeSecurityManager.ensure_security_manager
ensure_security_manager(st) ==
    IF ctx_resolve_security_manager(st.context) # None
    THEN SReturn(Called(st, Event("ensure_security_manager")), st.context)
    ELSE SReturn(SetContext(Called(st, Event("ensure_security_manager")),
                            [st.context EXCEPT !.security_manager = SM]),
                 [st.context EXCEPT !.security_manager = SM])

\* NativeSecurityManager.get_session_key
get_session_key(context) == context.session_id

\* NativeSecurityManager.resolve_context_session
resolve_context_session(st) ==
    IF get_session_key(st.context) # None
    THEN get_session(st, get_session_key(st.context))
    ELSE SReturn(st, None)

\* resolve_session without its except clause
resolve_session_uncaught(st) ==
    IF ctx_resolve_session(st.context) # None
    THEN SReturn(Called(st, Event("resolve_session")), st.context)
    ELSE Then(resolve_context_session(Called(st, Event("resolve_session"))),
              LAMBDA resolved :
                  SReturn(SetContext(resolved.st,
                                     [resolved.st.context EXCEPT !.session = resolved.ret]),
                          [resolved.st.context EXCEPT !.session = resolved.ret]))

\* resolve_session that asks the session manager whatever the context holds
resolve_session_always_looking(st) ==
    Handle(resolve_context_session(Called(st, Event("resolve_session"))),
           LAMBDA resolved :
               SReturn(SetContext(resolved.st,
                                  [resolved.st.context EXCEPT !.session = resolved.ret]),
                       [resolved.st.context EXCEPT !.session = resolved.ret]),
           LAMBDA failed :
               IF failed.exc.type = "InvalidSessionException"
               THEN SReturn(failed.st, failed.st.context)
               ELSE failed)

\* NativeSecurityManager.resolve_session
resolve_session(st) ==
    IF ctx_resolve_session(st.context) # None
    THEN SReturn(Called(st, Event("resolve_session")), st.context)
    ELSE Handle(resolve_context_session(Called(st, Event("resolve_session"))),
                LAMBDA resolved :
                    SReturn(SetContext(resolved.st,
                                       [resolved.st.context EXCEPT
                                            !.session = resolved.ret]),
                            [resolved.st.context EXCEPT !.session = resolved.ret]),
                LAMBDA failed :
                    IF failed.exc.type = "InvalidSessionException"
                    THEN SReturn(failed.st, failed.st.context)
                    ELSE failed)

\* get_remembered_identity without its except clause
get_remembered_identity_uncaught(st, faults) ==
    IF st.rmm # None
    THEN get_remembered_identifiers(
             Called(st, Event("rmm.get_remembered_identifiers")), faults)
    ELSE SReturn(st, None)

\* NativeSecurityManager.get_remembered_identity
get_remembered_identity(st, faults) ==
    IF st.rmm # None
    THEN Catch(get_remembered_identifiers(
                   Called(st, Event("rmm.get_remembered_identifiers")), faults),
               Logged)
    ELSE SReturn(st, None)

\* resolve_identifiers that asks the remember-me manager whatever the
\* context holds
resolve_identifiers_overwriting(st, faults) ==
    Then(get_remembered_identity(Called(st, Event("resolve_identifiers")), faults),
         LAMBDA found :
             IF found.ret # None
             THEN SReturn(SetContext(found.st,
                                     [found.st.context EXCEPT
                                          !.identifiers = found.ret,
                                          !.remembered = TRUE]),
                          [found.st.context EXCEPT !.identifiers = found.ret,
                                                   !.remembered = TRUE])
             ELSE SReturn(found.st, found.st.context))

\* NativeSecurityManager.resolve_identifiers
resolve_identifiers(st, faults) ==
    IF ctx_resolve_identifiers(st.context) = None
    THEN Then(get_remembered_identity(Called(st, Event("resolve_identifiers")), faults),
              LAMBDA found :
                  IF found.ret # None
                  THEN SReturn(SetContext(found.st,
                                          [found.st.context EXCEPT
                                               !.identifiers = found.ret,
                                               !.remembered = TRUE]),
                               [found.st.context EXCEPT !.identifiers = found.ret,
                                                        !.remembered = TRUE])
                  ELSE SReturn(found.st, found.st.context))
    ELSE SReturn(Called(st, Event("resolve_identifiers")), st.context)

\* NativeSecurityManager.do_create_subject
do_create_subject(st) ==
    SReturn(Called(st, Event("do_create_subject")),
            [identifiers |-> ctx_resolve_identifiers(st.context),
             remembered |-> st.context.remembered,
             authenticated |-> ctx_resolve_authenticated(st.context),
             session |-> ctx_resolve_session(st.context)])

\* the resolver steps of create_subject, run on the context of st
resolve_steps(st, faults) ==
    Then(ensure_security_manager(st),
         LAMBDA ensured :
             Then(resolve_session(ensured.st),
                  LAMBDA session_resolved :
                      resolve_identifiers(session_resolved.st, faults)))

\* the context create_subject builds after a login
login_context(authc_token, account_id, existing_subject) ==
    [create_subject_context(existing_subject) EXCEPT
        !.authenticated = TRUE,
        !.authentication_token = authc_token,
        !.account_id = account_id,
        !.subject = existing_subject]

\* create_subject that resolves the identifiers before the session
create_subject_identifiers_first(st, authc_token, account_id, existing_subject, subject_context, faults) ==
    Then(ensure_security_manager(
             IF subject_context = None
             THEN [st EXCEPT !.context = login_context(authc_token, account_id,
                                                       existing_subject)]
             ELSE copy_context([st EXCEPT !.caller_context = subject_context,
                                          !.aliased = TRUE])),
         LAMBDA ensured :
             Then(resolve_identifiers(ensured.st, faults),
                  LAMBDA resolved :
                      Then(resolve_session(resolved.st),
                           LAMBDA session_resolved :
                               Then(do_create_subject(session_resolved.st),
                                    LAMBDA created :
                                        Then(save(created.st, created.ret, "new"),
                                             LAMBDA saved :
                                                 SReturn(saved.st, created.ret))))))

\* NativeSecurityManager.create_subject; st.caller_context is the caller's
\* context object
create_subject(st, authc_token, account_id, existing_subject, subject_context, faults) ==
    Then(ensure_security_manager(
             IF subject_context = None
             THEN [st EXCEPT !.context = login_context(authc_token, account_id,
                                                       existing_subject)]
             ELSE copy_context([st EXCEPT !.caller_context = subject_context,
                                          !.aliased = TRUE])),
         LAMBDA ensured :
             Then(resolve_session(ensured.st),
                  LAMBDA session_resolved :
                      Then(resolve_identifiers(session_resolved.st, faults),
                           LAMBDA resolved :
                               Then(do_create_subject(resolved.st),
                                    LAMBDA created :
                                        Then(save(created.st, created.ret, "new"),
                                             LAMBDA saved :
                                                 SReturn(saved.st, created.ret))))))

\* update_subject_identity that saves the subject without giving it the
\* partial account id
update_subject_identity_unassigned(st, account_id) ==
    Then(save(Called(st, Event("update_subject_identity")), st.subject, "existing"),
         LAMBDA saved : SReturn(saved.st, saved.st.subject))

\* NativeSecurityManager.update_subject_identity: the subject is the
\* caller's object, changed in place
update_subject_identity(st, account_id) ==
    Then(save([Called(st, Event("update_subject_identity")) EXCEPT
                   !.subject.identifiers = account_id],
              [st.subject EXCEPT !.identifiers = account_id], "existing"),
         LAMBDA saved : SReturn(saved.st, saved.st.subject))

\* remember_me_successful_login without its except clause
remember_me_successful_login_uncaught(st, authc_token, account_id, subj, faults) ==
    IF st.rmm # None
    THEN rmm_on_successful_login(
             Called(Called(st, Event("remember_me_successful_login")),
                    [call |-> "rmm.on_successful_login", subject |-> subj]),
             subj, authc_token, account_id, faults)
    ELSE SReturn(Called(st, Event("remember_me_successful_login")), None)

\* NativeSecurityManager.remember_me_successful_login
remember_me_successful_login(st, authc_token, account_id, subj, faults) ==
    IF st.rmm # None
    THEN Catch(rmm_on_successful_login(
                   Called(Called(st, Event("remember_me_successful_login")),
                          [call |-> "rmm.on_successful_login", subject |-> subj]),
                   subj, authc_token, account_id, faults),
               Logged)
    ELSE SReturn(Called(st, Event("remember_me_successful_login")), None)

\* NativeSecurityManager.remember_me_failed_login
remember_me_failed_login(st, authc_token, authc_exc, subj, faults) ==
    IF st.rmm # None
    THEN Catch(rmm_on_failed_login(
                   Called(Called(st, Event("remember_me_failed_login")),
                          Event("rmm.on_failed_login")),
                   subj, authc_token, authc_exc, faults),
               Logged)
    ELSE SReturn(Called(st, Event("remember_me_failed_login")), None)

\* NativeSecurityManager.remember_me_logout
\* remember_me_logout without its except clause
remember_me_logout_uncaught(st, subj, faults) ==
    IF st.rmm # None
    THEN rmm_on_logout(Called(Called(st, Event("remember_me_logout")),
                              Event("rmm.on_logout")),
                       subj, faults)
    ELSE SReturn(Called(st, Event("remember_me_logout")), None)

remember_me_logout(st, subj, faults) ==
    IF st.rmm # None
    THEN Catch(rmm_on_logout(Called(Called(st, Event("remember_me_logout")),
                                    Event("rmm.on_logout")),
                             subj, faults),
               Logged)
    ELSE SReturn(Called(st, Event("remember_me_logout")), None)

\* NativeSecurityManager.on_successful_login
on_successful_login(st, authc_token, account_id, subj, faults) ==
    remember_me_successful_login(st, authc_token, account_id, subj, faults)

\* on_failed_login that notifies nobody
on_failed_login_silent(st, authc_token, authc_exc, subj, faults) == SReturn(st, None)

\* NativeSecurityManager.on_failed_login
on_failed_login(st, authc_token, authc_exc, subj, faults) ==
    remember_me_failed_login(st, authc_token, authc_exc, subj, faults)

\* NativeSecurityManager.before_logout
before_logout(st, subj, faults) == remember_me_logout(st, subj, faults)

\* Authenticator.authenticate_account, by what it does: it returns an
\* account id, or raises AdditionalAuthenticationRequired carrying a partial
\* account id, or raises an AuthenticationException
AuthcOutcomes ==
    {[kind |-> k, account_id |-> a] : k \in {"account", "additional"}, a \in AccountIds}
        \cup {[kind |-> "failed", account_id |-> None]}

authenticator_authenticate_account(st, outcome) ==
    CASE outcome.kind = "account" ->
            SReturn(Called(st, Event("authenticate_account")), outcome.account_id)
      [] outcome.kind = "additional" ->
            SRaise(Called(st, Event("authenticate_account")),
                   Exception("AdditionalAuthenticationRequired", outcome.account_id,
                             "authenticator"))
      [] outcome.kind = "failed" ->
            SRaise(Called(st, Event("authenticate_account")),
                   Exception("AuthenticationException", None, "authenticator"))

\* login that passes the authenticator's continuation error on as it is
login_reraising(st, authc_token, outcome, faults) ==
    Handle(authenticator_authenticate_account(st, outcome),
           LAMBDA authc :
               Then(create_subject(authc.st, authc_token, authc.ret, authc.st.subject,
                                   None, faults),
                    LAMBDA created :
                        Then(on_successful_login(created.st, authc_token, authc.ret,
                                                 created.ret, faults),
                             LAMBDA hooked : SReturn(hooked.st, created.ret))),
           LAMBDA failed :
               IF failed.exc.type = "AdditionalAuthenticationRequired"
               THEN Then(update_subject_identity(failed.st, failed.exc.account_id),
                         LAMBDA updated : SRaise(updated.st, failed.exc))
               ELSE Then(Catch(on_failed_login(failed.st, authc_token, failed.exc,
                                               failed.st.subject, faults),
                               Logged),
                         LAMBDA hooked : SRaise(hooked.st, failed.exc)))

\* login that takes a continuation for a failure and runs the failed-login
\* hook
login_failing_continuation(st, authc_token, outcome, faults) ==
    Handle(authenticator_authenticate_account(st, outcome),
           LAMBDA authc :
               Then(create_subject(authc.st, authc_token, authc.ret, authc.st.subject,
                                   None, faults),
                    LAMBDA created :
                        Then(on_successful_login(created.st, authc_token, authc.ret,
                                                 created.ret, faults),
                             LAMBDA hooked : SReturn(hooked.st, created.ret))),
           LAMBDA failed :
               IF failed.exc.type = "AdditionalAuthenticationRequired"
               THEN Then(update_subject_identity(failed.st, failed.exc.account_id),
                         LAMBDA updated :
                             Then(Catch(on_failed_login(updated.st, authc_token,
                                                        failed.exc, updated.st.subject,
                                                        faults),
                                        Logged),
                                  LAMBDA hooked :
                                      SRaise(hooked.st,
                                             Exception("AdditionalAuthenticationRequired",
                                                       None, "login"))))
               ELSE Then(Catch(on_failed_login(failed.st, authc_token, failed.exc,
                                               failed.st.subject, faults),
                               Logged),
                         LAMBDA hooked : SRaise(hooked.st, failed.exc)))

\* NativeSecurityManager.login; the subject is the caller's st.subject
login(st, authc_token, outcome, faults) ==
    Handle(authenticator_authenticate_account(st, outcome),
           LAMBDA authc :
               Then(create_subject(authc.st, authc_token, authc.ret, authc.st.subject,
                                   None, faults),
                    LAMBDA created :
                        Then(on_successful_login(created.st, authc_token, authc.ret,
                                                 created.ret, faults),
                             LAMBDA hooked : SReturn(hooked.st, created.ret))),
           LAMBDA failed :
               IF failed.exc.type = "AdditionalAuthenticationRequired"
               THEN Then(update_subject_identity(failed.st, failed.exc.account_id),
                         LAMBDA updated :
                             SRaise(updated.st,
                                    Exception("AdditionalAuthenticationRequired", None,
                                              "login")))
               ELSE Then(Catch(on_failed_login(failed.st, authc_token, failed.exc,
                                               failed.st.subject, faults),
                               Logged),
                         LAMBDA hooked : SRaise(hooked.st, failed.exc)))

\* NativeSecurityManager.stop_session
stop_session(st, subj, faults) ==
    IF subj.session # None
    THEN IF "stop_fails" \in faults \/ subj.session.session_id \notin st.sessions
         THEN SRaise(Called(st, Event("session.stop")),
                     Exception("InvalidSessionException", None, "session.stop"))
         ELSE SReturn([Called(st, Event("session.stop")) EXCEPT
                           !.sessions = @ \ {subj.session.session_id}], None)
    ELSE SReturn(st, None)

\* logout that unbinds the stored subject before it rejects None
logout_unbinding_first(st, subj, faults) ==
    IF subj = None
    THEN SRaise([Called(st, Event("delete")) EXCEPT !.subject_store = None],
                Exception("ValueError", None, "logout"))
    ELSE Then(before_logout(st, subj, faults),
              LAMBDA before :
                  Then(Catch(delete(before.st, subj, faults), Logged),
                       LAMBDA deleted :
                           Catch(stop_session(deleted.st, subj, faults), Logged)))

\* logout with stop_session inside the try block of delete
logout_one_try(st, subj, faults) ==
    IF subj = None
    THEN SRaise(st, Exception("ValueError", None, "logout"))
    ELSE Then(before_logout(st, subj, faults),
              LAMBDA before :
                  Catch(Then(delete(before.st, subj, faults),
                             LAMBDA deleted : stop_session(deleted.st, subj, faults)),
                        Logged))

\* NativeSecurityManager.logout: the errors of delete and of stop_session are
\* caught and logged
logout(st, subj, faults) ==
    IF subj = None
    THEN SRaise(st, Exception("ValueError", None, "logout"))
    ELSE Then(before_logout(st, subj, faults),
              LAMBDA before :
                  Then(Catch(delete(before.st, subj, faults), Logged),
                       LAMBDA deleted :
                           Catch(stop_session(deleted.st, subj, faults), Logged)))

\* ---- the realm's state machine

NoRealmCall ==
    [op |-> "none", token |-> None, fault |-> "ok", cch |-> None, exc |-> NoExc,
     ret |-> None, matched |-> "not_called", account |-> None, store_calls |-> 0,
     cached_before |-> None]

\* a collaborator fails only in a call that reaches it: the cache handler's
\* resolvers when a handler is set, the store when it is asked, the cache's
\* put when an account was fetched
RealmFaultReached(fault, r) ==
    CASE fault = "ok" -> TRUE
      [] fault \in {"get_fails", "key_absent"} -> credentials_cache_handler # None
      [] fault = "store_unavailable" -> r.store_calls = 1
      [] fault = "put_fails" -> /\ credentials_cache_handler # None
                                /\ r.exc = "CacheCredentialsException"

InitRealm ==
    /\ account_store = None
    /\ credentials_cache_handler = None
    /\ credentials_cache = [k \in Identifiers |-> None]
    /\ realm_call = NoRealmCall

\* the account_store setter
SetAccountStore ==
    /\ \E s \in StoreContents : account_store' = s
    /\ UNCHANGED <<credentials_cache_handler, credentials_cache, realm_call>>
    /\ UNCHANGED authz_vars
    /\ UNCHANGED sm_vars

\* the credentials_cache_handler setter
SetCredentialsCacheHandler ==
    /\ \E h \in {None, CCH} : credentials_cache_handler' = h
    /\ UNCHANGED <<account_store, credentials_cache, realm_call>>
    /\ UNCHANGED authz_vars
    /\ UNCHANGED sm_vars

GetCredentials ==
    \E t \in Tokens, f \in RealmFaults :
        LET r == get_credentials(RealmState, t, f)
        IN  /\ RealmFaultReached(f, r)
            /\ credentials_cache' = r.st.cache
            /\ realm_call' = [op |-> "get_credentials", token |-> t, fault |-> f,
                              cch |-> credentials_cache_handler, exc |-> r.exc, ret |-> r.ret, matched |-> "not_called",
                              account |-> None, store_calls |-> r.store_calls,
                              cached_before |-> credentials_cache[t.identifier]]
            /\ UNCHANGED <<account_store, credentials_cache_handler>>
            /\ UNCHANGED authz_vars
            /\ UNCHANGED sm_vars

AuthenticateAccount ==
    \E t \in Tokens, f \in RealmFaults :
        LET r == authenticate_account(RealmState, t, f)
        IN  /\ RealmFaultReached(f, r)
            /\ credentials_cache' = r.st.cache
            /\ realm_call' = [op |-> "authenticate_account", token |-> t, fault |-> f,
                              cch |-> credentials_cache_handler, exc |-> r.exc, ret |-> r.ret, matched |-> r.matched,
                              account |-> r.account, store_calls |-> r.store_calls,
                              cached_before |-> credentials_cache[t.identifier]]
            /\ UNCHANGED <<account_store, credentials_cache_handler>>
            /\ UNCHANGED authz_vars
            /\ UNCHANGED sm_vars

NextRealm ==
    \/ SetAccountStore
    \/ SetCredentialsCacheHandler
    \/ GetCredentials
    \/ AuthenticateAccount

\* ---- the realm's authorization calls

NoAuthzCall ==
    [op |-> "none", identifiers |-> None, kind |-> None, requested |-> None,
     consumed |-> None, exc |-> NoExc, ret |-> None, info |-> None, store_calls |-> 0,
     ach |-> None, cached_before |-> None, stored |-> None]

\* no caller is inside get_authorization_info
NoCallers == <<>>

InitAuthz ==
    /\ authz_store = [i \in Identifiers |-> None]
    /\ authorization_cache_handler = None
    /\ permission_resolver = None
    /\ authorization_cache = [i \in Identifiers |-> None]
    /\ authz_call = NoAuthzCall
    /\ callers = NoCallers
    /\ grant_phase = [i \in Identifiers |-> "initial"]

\* an account store that is configured and holds no credentials
EmptyAccountStore == [i \in Identifiers |-> None]

\* the lists of permissions and the sets of role ids a caller asks about
RequestedLists == UNION {[1..n -> RequestedPermissions] : n \in 1..MaxRequested}
StringLists == UNION {[1..n -> StringPermissions] : n \in 1..MaxStrings}
RequestedRoles == SUBSET Roles \ {{}}

\* the kinds of identifiers that make a difference: identifiers are
\* concatenated only on a realm with an authorization cache handler
KindsThatMatter ==
    IF authorization_cache_handler = None THEN {"IdentifierCollection"}
    ELSE IdentifierKinds

\* the record of a call and of its result r
AuthzCallRecord(op, i, k, requested, consumed, r) ==
    [op |-> op, identifiers |-> i, kind |-> k, requested |-> requested,
     consumed |-> consumed, exc |-> r.exc, ret |-> r.ret, info |-> r.info,
     store_calls |-> r.store_calls, ach |-> authorization_cache_handler,
     cached_before |-> authorization_cache[i], stored |-> authz_store[i]]

\* what a call leaves in the variables
AuthzEffects(r) ==
    /\ authorization_cache' = r.st.cache
    /\ UNCHANGED <<authz_store, authorization_cache_handler, callers, grant_phase, permission_resolver>>
    /\ UNCHANGED <<account_store, credentials_cache_handler, credentials_cache, realm_call>>
    /\ UNCHANGED sm_vars

GetAuthorizationInfo ==
    \E i \in Identifiers, k \in KindsThatMatter :
        \E r \in {get_authorization_info(AuthzState, i, k)} :
            /\ AuthzEffects(r)
            /\ authz_call' = AuthzCallRecord("get_authorization_info", i, k, None, None, r)

IsPermitted ==
    \E i \in Identifiers, k \in KindsThatMatter, ps \in RequestedLists :
        \E n \in 0..Len(ps) :
            \E r \in {is_permitted(AuthzState, i, k, ps, n)} :
                /\ AuthzEffects(r)
                /\ authz_call' = AuthzCallRecord("is_permitted", i, k, ps, n, r)

\* is_permitted called with a list of string-formatted permissions
IsPermittedOfStrings ==
    \E i \in Identifiers, k \in KindsThatMatter, ps \in StringLists :
        \E n \in 0..Len(ps) :
            \E r \in {is_permitted(AuthzState, i, k, ps, n)} :
                /\ AuthzEffects(r)
                /\ authz_call' = AuthzCallRecord("is_permitted", i, k, ps, n, r)

\* the permission_resolver setter
SetPermissionResolver ==
    /\ \E p \in {None, PR} : permission_resolver' = p
    /\ UNCHANGED <<authz_store, authorization_cache_handler, authorization_cache,
                   authz_call, callers, grant_phase>>
    /\ UNCHANGED <<account_store, credentials_cache_handler, credentials_cache, realm_call>>
    /\ UNCHANGED sm_vars

HasRole ==
    \E i \in Identifiers, k \in KindsThatMatter, rs \in RequestedRoles :
        \E c \in SUBSET rs :
            \E r \in {has_role(AuthzState, i, k, rs, c)} :
                /\ AuthzEffects(r)
                /\ authz_call' = AuthzCallRecord("has_role", i, k, rs, c, r)

HasAllRoles ==
    \E i \in Identifiers, k \in KindsThatMatter, rs \in RequestedRoles :
        \E r \in {has_all_roles(AuthzState, i, k, rs)} :
            /\ AuthzEffects(r)
            /\ authz_call' = AuthzCallRecord("has_all_roles", i, k, rs, None, r)

DoClearCache ==
    \E i \in Identifiers :
        \E r \in {do_clear_cache(AuthzState, i)} :
            /\ AuthzEffects(r)
            /\ authz_call' = AuthzCallRecord("do_clear_cache", i, None, None, None, r)

\* the authorization_cache_handler setter
SetAuthorizationCacheHandler ==
    /\ \E h \in {None, ACH} : authorization_cache_handler' = h
    /\ UNCHANGED <<authz_store, authorization_cache, authz_call, callers, grant_phase, permission_resolver>>
    /\ UNCHANGED <<account_store, credentials_cache_handler, credentials_cache, realm_call>>
    /\ UNCHANGED sm_vars

\* the grants that the account store's administration moves between: a
\* role and a permission, each granted or revoked
ChangedGrants ==
    {[roles |-> r, permissions |-> p] :
        r \in {{}, {"admin"}},
        p \in {{}, {[domain |-> Wildcard, action |-> "read"]}}}

\* roles or permissions of an account are changed in the account store
GrantChange ==
    /\ \E i \in Identifiers, g \in ChangedGrants :
        /\ authz_store[i] # g
        /\ authz_store' = [authz_store EXCEPT ![i] = g]
    /\ authz_call' = [NoAuthzCall EXCEPT !.op = "grant_change"]
    /\ UNCHANGED <<authorization_cache_handler, authorization_cache, callers, grant_phase, permission_resolver>>
    /\ UNCHANGED <<account_store, credentials_cache_handler, credentials_cache, realm_call>>
    /\ UNCHANGED sm_vars

NextPermissions == IsPermitted

NextRoles == HasRole \/ HasAllRoles

NextPermissionForms ==
    \/ SetPermissionResolver
    \/ IsPermitted
    \/ IsPermittedOfStrings

NextAuthzCache ==
    \/ SetAuthorizationCacheHandler
    \/ GrantChange
    \/ GetAuthorizationInfo
    \/ DoClearCache

\* ---- get_authorization_info run by several callers, step by step

\* the callers that run get_authorization_info at the same time
MaxCallers == 2
CallerIds == 1..MaxCallers

\* the identifiers all of them ask about
SharedIdentifiers == 1

\* a caller that is not in get_authorization_info; fresh tells that its
\* call began after the grants changed and do_clear_cache was called and
\* left, and that the grants have not changed since
IdleCaller ==
    [pc |-> "idle", kind |-> None, info |-> None, exc |-> NoExc, fresh |-> FALSE]

\* the grants the account is moved between: granted or revoked as a whole
RevocableGrants == {g \in ChangedGrants : (g.roles = {}) = (g.permissions = {})}

\* caller c moves to the record next
CallerMoves(c, next) ==
    /\ callers' = [callers EXCEPT ![c] = next]
    /\ UNCHANGED <<authz_store, authorization_cache_handler, authz_call, grant_phase, permission_resolver>>
    /\ UNCHANGED <<account_store, credentials_cache_handler, credentials_cache, realm_call>>
    /\ UNCHANGED sm_vars

\* c calls get_authorization_info
BeginGetAuthorizationInfo(c) ==
    /\ callers[c].pc = "idle"
    /\ \E k \in IdentifierKinds :
          CallerMoves(c, [IdleCaller EXCEPT
                             !.pc = "check_cache", !.kind = k,
                             !.fresh = (grant_phase[SharedIdentifiers] = "cleared")])
    /\ UNCHANGED authorization_cache

\* if (ach): authz_info = ach.get_cached_authorization_info(identifiers),
\* and the message that concatenates identifiers
CheckCache(c) ==
    /\ callers[c].pc = "check_cache"
    /\ LET cached == IF authorization_cache_handler # None
                     THEN get_cached_authorization_info(AuthzState, SharedIdentifiers)
                     ELSE None
       IN  IF authorization_cache_handler # None /\ ~ concatenates(callers[c].kind)
           THEN CallerMoves(c, [callers[c] EXCEPT !.pc = "done", !.exc = "TypeError"])
           ELSE IF cached # None
           THEN CallerMoves(c, [callers[c] EXCEPT !.pc = "done", !.info = cached])
           ELSE CallerMoves(c, [callers[c] EXCEPT !.pc = "fetch"])
    /\ UNCHANGED authorization_cache

\* account = self.account_store.get_authz_info(identifiers) and
\* authz_info = IndexedAuthorizationInfo(account.roles, account.permissions)
FetchFromStore(c) ==
    /\ callers[c].pc = "fetch"
    /\ LET account == authz_store[SharedIdentifiers]
       IN  IF account_store = None \/ account = None
           THEN CallerMoves(c, [callers[c] EXCEPT !.pc = "done", !.exc = "AttributeError"])
           ELSE LET authz_info == IndexedAuthorizationInfo(account.roles,
                                                           account.permissions)
                IN  CallerMoves(c, [callers[c] EXCEPT
                                       !.pc = IF authorization_cache_handler # None
                                              THEN "populate" ELSE "done",
                                       !.info = authz_info])
    /\ UNCHANGED authorization_cache

\* ach.cache_authorization_info(identifiers, authz_info), after the message
\* that concatenates identifiers
PopulateCache(c) ==
    /\ callers[c].pc = "populate"
    /\ IF ~ concatenates(callers[c].kind)
       THEN /\ CallerMoves(c, [callers[c] EXCEPT !.pc = "done", !.info = None,
                                                  !.exc = "TypeError"])
            /\ UNCHANGED authorization_cache
       ELSE /\ CallerMoves(c, [callers[c] EXCEPT !.pc = "done"])
            /\ authorization_cache' =
                   cache_authorization_info(AuthzState, SharedIdentifiers,
                                            callers[c].info).cache

\* return authz_info: the caller has its answer and leaves
ReturnAuthorizationInfo(c) ==
    /\ callers[c].pc = "done"
    /\ CallerMoves(c, IdleCaller)
    /\ UNCHANGED authorization_cache

\* the grants of the account are changed in the account store; no call in
\* progress began after this change
ChangeGrants ==
    /\ \E g \in RevocableGrants :
          /\ authz_store[SharedIdentifiers] # g
          /\ authz_store' = [authz_store EXCEPT ![SharedIdentifiers] = g]
    /\ grant_phase' = [grant_phase EXCEPT ![SharedIdentifiers] = "changed"]
    /\ callers' = [c \in CallerIds |-> [callers[c] EXCEPT !.fresh = FALSE]]
    /\ UNCHANGED <<authorization_cache_handler, authorization_cache, authz_call, permission_resolver>>
    /\ UNCHANGED <<account_store, credentials_cache_handler, credentials_cache, realm_call>>
    /\ UNCHANGED sm_vars

\* do_clear_cache(identifiers) is called after the grants changed, and
\* control has left it
ClearCache ==
    /\ grant_phase[SharedIdentifiers] = "changed"
    /\ \E r \in {do_clear_cache(AuthzState, SharedIdentifiers)} :
          authorization_cache' = r.st.cache
    /\ grant_phase' = [grant_phase EXCEPT ![SharedIdentifiers] = "cleared"]
    /\ UNCHANGED <<authz_store, authorization_cache_handler, authz_call, callers, permission_resolver>>
    /\ UNCHANGED <<account_store, credentials_cache_handler, credentials_cache, realm_call>>
    /\ UNCHANGED sm_vars

NextAuthzConcurrent ==
    \/ \E c \in CallerIds : BeginGetAuthorizationInfo(c)
    \/ \E c \in CallerIds : CheckCache(c)
    \/ \E c \in CallerIds : FetchFromStore(c)
    \/ \E c \in CallerIds : PopulateCache(c)
    \/ \E c \in CallerIds : ReturnAuthorizationInfo(c)
    \/ ChangeGrants
    \/ ClearCache

\* ---- the security manager's state machine

AnonymousSubject ==
    [identifiers |-> None, authenticated |-> FALSE, remembered |-> FALSE,
     session |-> None]

\* the contexts a caller hands to create_subject
CallerContexts ==
    {c \in {[NewContext EXCEPT !.security_manager = m, !.session = s,
                               !.session_id = k, !.identifiers = i] :
                m \in {None, SM}, s \in SessionRefs \cup {None},
                k \in SessionRefs \cup {None}, i \in AccountIds \cup {None}} :
        c.session # None => c.session_id \in {None, c.session}}

\* what the collaborators of one call do: each either works or fails
LoginFaults == SUBSET {"forget_fails", "remember_fails", "serialize_fails"}
LogoutFaults == SUBSET {"forget_fails", "delete_fails", "stop_fails"}
RetrievalFaults == SUBSET {"fetch_fails", "deserialize_fails", "forget_fails"}

NoSMCall ==
    [op |-> "none", token |-> None, outcome |-> None, faults |-> {},
     subject |-> None, context |-> None, exc |-> NoException, ret |-> None,
     trace |-> <<>>, remembered_before |-> None, remembered_after |-> None,
     subject_after |-> None, store_after |-> None, sessions_after |-> {},
     caller_context |-> None, resolved_context |-> None]

InitSM ==
    /\ remember_me_manager \in {None, RMM}
    /\ encryption_cipher_key = "k1"
    /\ decryption_cipher_key = "k1"
    /\ remembered_identity = None
    /\ subject_store = None
    /\ sessions = {}
    /\ subject = AnonymousSubject
    /\ sm_call = NoSMCall

\* the collaborator call that each fault makes fail
FaultCall(fault) ==
    CASE fault = "forget_fails" -> "forget_identity"
      [] fault = "remember_fails" -> "remember_encrypted_identity"
      [] fault = "serialize_fails" -> "serialize"
      [] fault = "fetch_fails" -> "get_remembered_encrypted_identity"
      [] fault = "deserialize_fails" -> "deserialize"
      [] fault = "delete_fails" -> "delete"
      [] fault = "stop_fails" -> "session.stop"

\* a collaborator fails only in a call that reaches it
Reached(r, faults) == \A x \in faults : CountCalls(r.st.trace, FaultCall(x)) > 0

\* the record of a call: op(subject s, token t, context c) with the
\* authenticator doing o and the collaborators failing as in f, and its result r
CallRecord(op, s, t, c, o, f, r) ==
    [op |-> op, token |-> t, outcome |-> o, faults |-> f, subject |-> s,
     context |-> c, exc |-> r.exc, ret |-> r.ret, trace |-> r.st.trace,
     remembered_before |-> remembered_identity,
     remembered_after |-> r.st.remembered_identity,
     subject_after |-> r.st.subject,
     store_after |-> r.st.subject_store,
     sessions_after |-> r.st.sessions,
     caller_context |-> r.st.caller_context,
     resolved_context |-> r.st.context]

\* what a call leaves in the variables
Effects(r) ==
    /\ remembered_identity' = r.st.remembered_identity
    /\ subject_store' = r.st.subject_store
    /\ sessions' = r.st.sessions
    /\ UNCHANGED <<remember_me_manager, encryption_cipher_key, decryption_cipher_key>>
    /\ UNCHANGED realm_vars

\* login(subject, authc_token): the caller goes on with the Subject returned
Login ==
    \E t \in AuthcTokens, o \in AuthcOutcomes, f \in LoginFaults :
        \E r \in {login(SMState, t, o, f)} :
            /\ Reached(r, f)
            /\ Effects(r)
            /\ subject' = IF Ok(r) THEN r.ret ELSE r.st.subject
            /\ sm_call' = CallRecord("login", subject, t, None, o, f, r)

\* logout(subject)
Logout ==
    \E s \in {None, subject}, f \in LogoutFaults :
        \E r \in {logout(SMState, s, f)} :
            /\ Reached(r, f)
            /\ Effects(r)
            /\ subject' = r.st.subject
            /\ sm_call' = CallRecord("logout", s, None, None, None, f, r)

\* create_subject(subject_context=context): the Subject returned is another
\* object than the caller's subject
CreateSubject ==
    \E c \in CallerContexts, f \in RetrievalFaults :
        \E r \in {create_subject(SMState, None, None, None, c, f)} :
            /\ Reached(r, f)
            /\ Effects(r)
            /\ subject' = r.st.subject
            /\ sm_call' = CallRecord("create_subject", None, None, c, None, f, r)

\* NativeSecurityManager.start, for the caller's subject (Subject.get_session)
Start ==
    /\ subject.session = None
    /\ \E n \in SessionIds \ sessions :
        /\ sessions' = sessions \cup {n}
        /\ subject' = [subject EXCEPT !.session = [session_id |-> n]]
    /\ sm_call' = [NoSMCall EXCEPT !.op = "start"]
    /\ UNCHANGED <<remember_me_manager, encryption_cipher_key, decryption_cipher_key,
                   remembered_identity, subject_store>>
    /\ UNCHANGED realm_vars

\* the remember-me manager's own methods, called on a configured manager
RmmCall(op, t, a, f, r) ==
    /\ remember_me_manager # None
    /\ Reached(r, f)
    /\ Effects(r)
    /\ subject' = r.st.subject
    /\ sm_call' = CallRecord(op, subject, t, None, a, f, r)

RmmOnSuccessfulLogin ==
    \E t \in AuthcTokens, a \in AccountIds, f \in LoginFaults :
        RmmCall("rmm.on_successful_login", t, a, f,
                rmm_on_successful_login(SMState, subject, t, a, f))

RmmOnFailedLogin ==
    \E t \in AuthcTokens, f \in SUBSET {"forget_fails"} :
        RmmCall("rmm.on_failed_login", t, None, f,
                rmm_on_failed_login(SMState, subject, t, None, f))

RmmOnLogout ==
    \E f \in SUBSET {"forget_fails"} :
        RmmCall("rmm.on_logout", None, None, f, rmm_on_logout(SMState, subject, f))

RmmGetRememberedIdentifiers ==
    \E f \in RetrievalFaults :
        RmmCall("rmm.get_remembered_identifiers", None, None, f,
                get_remembered_identifiers(SMState, f))

\* the cipher key attributes are assigned (a key is rotated)
SetCipherKeys ==
    /\ \E e \in Keys, d \in Keys :
        /\ encryption_cipher_key' = e
        /\ decryption_cipher_key' = d
    /\ sm_call' = [NoSMCall EXCEPT !.op = "set_cipher_keys"]
    /\ UNCHANGED <<remember_me_manager, remembered_identity, subject_store, sessions,
                   subject>>
    /\ UNCHANGED realm_vars

\* the stored ciphertext is changed where it is kept (a byte is flipped)
TamperRememberedIdentity ==
    /\ remembered_identity # None
    /\ remembered_identity.intact
    /\ remembered_identity' = [remembered_identity EXCEPT !.intact = FALSE]
    /\ sm_call' = [NoSMCall EXCEPT !.op = "tamper"]
    /\ UNCHANGED <<remember_me_manager, encryption_cipher_key, decryption_cipher_key,
                   subject_store, sessions, subject>>
    /\ UNCHANGED realm_vars

\* logins and logouts of the caller's subject
Next ==
    \/ Login
    \/ Logout
    \/ Start
    \/ TamperRememberedIdentity

\* subjects created from a caller's context, over a session that may have
\* started and an identity that may be remembered
NextSubject ==
    \/ CreateSubject
    \/ Start
    \/ RmmOnSuccessfulLogin
    \/ TamperRememberedIdentity

NextRememberMe ==
    \/ RmmOnSuccessfulLogin
    \/ RmmOnFailedLogin
    \/ RmmOnLogout
    \/ RmmGetRememberedIdentifiers
    \/ SetCipherKeys
    \/ TamperRememberedIdentity

vars == <<realm_vars, sm_vars>>

Init == InitRealm /\ InitAuthz /\ InitSM

Spec == Init /\ [][Next]_vars

SpecSubject == Init /\ [][NextSubject]_vars

\* the realm on its own, beside a security manager that is left alone
InitRealmAlone == Init /\ remember_me_manager = None

SpecRealm == InitRealmAlone /\ [][NextRealm]_vars

SpecRememberMe == Init /\ [][NextRememberMe]_vars

\* a realm with a configured account store whose roles and permissions
\* are one of stores, and an authorization cache handler out of handlers
InitAuthzWith(stores, handlers) ==
    /\ InitSM /\ remember_me_manager = None
    /\ account_store = EmptyAccountStore
    /\ credentials_cache_handler = None
    /\ credentials_cache = [k \in Identifiers |-> None]
    /\ realm_call = NoRealmCall
    /\ authz_store \in stores
    /\ authorization_cache_handler \in handlers
    /\ permission_resolver = None
    /\ authorization_cache = [i \in Identifiers |-> None]
    /\ authz_call = NoAuthzCall
    /\ callers = NoCallers
    /\ grant_phase = [i \in Identifiers |-> "initial"]

\* the stores in which account 1 alone has a record, out of grants
StoresOfOne(grants) ==
    {[i \in Identifiers |-> IF i = 1 THEN g ELSE None] : g \in grants}

\* account 1 has been granted permissions
InitPermissions ==
    InitAuthzWith(StoresOfOne({g \in Grants : g.roles = {}}), {None, ACH})

SpecPermissions == InitPermissions /\ [][NextPermissions]_vars

\* account 1 has been granted permissions; no authorization cache handler
\* and no permission resolver are set yet
InitPermissionForms ==
    InitAuthzWith(StoresOfOne({g \in Grants : g.roles = {}}), {None})

SpecPermissionForms == InitPermissionForms /\ [][NextPermissionForms]_vars

\* account 1 has been granted roles
InitRoles ==
    InitAuthzWith(StoresOfOne({g \in Grants : g.permissions = {}}), {None, ACH})

SpecRoles == InitRoles /\ [][NextRoles]_vars

\* every account has a record without grants, and no handler is set yet
InitAuthzCache ==
    InitAuthzWith({[i \in Identifiers |-> [roles |-> {}, permissions |-> {}]]}, {None})

SpecAuthzCache == InitAuthzCache /\ [][NextAuthzCache]_vars

\* the authorization calls of a realm whose authorization cache handler is
\* set and unset between them
NextAuthzCalls ==
    \/ SetAuthorizationCacheHandler
    \/ GetAuthorizationInfo
    \/ IsPermitted
    \/ HasRole
    \/ HasAllRoles

\* account 1 has a record with a role, a permission, both or neither; no
\* handler is set yet
InitAuthzCalls == InitAuthzWith(StoresOfOne(ChangedGrants), {None})

SpecAuthzCalls == InitAuthzCalls /\ [][NextAuthzCalls]_vars

\* a realm with an authorization cache handler; the account is granted or
\* not, and no caller is in get_authorization_info
InitAuthzConcurrent ==
    /\ InitSM /\ remember_me_manager = None
    /\ account_store = EmptyAccountStore
    /\ credentials_cache_handler = None
    /\ credentials_cache = [k \in Identifiers |-> None]
    /\ realm_call = NoRealmCall
    /\ authz_store \in StoresOfOne(RevocableGrants)
    /\ authorization_cache_handler = ACH
    /\ permission_resolver = None
    /\ authorization_cache = [i \in Identifiers |-> None]
    /\ authz_call = NoAuthzCall
    /\ callers = [c \in CallerIds |-> IdleCaller]
    /\ grant_phase = [i \in Identifiers |-> "initial"]

SpecAuthzConcurrent == InitAuthzConcurrent /\ [][NextAuthzConcurrent]_vars

\* ------------------------------------------------------------------ claims

\* ---- login that ends in a multi-factor continuation

AdditionalLogin == sm_call.op = "login" /\ sm_call.outcome.kind = "additional"

\* the save calls of the last call, in order
RECURSIVE Saves(_)
Saves(trace) ==
    IF trace = <<>> THEN <<>>
    ELSE IF Head(trace).call = "save" THEN <<Head(trace)>> \o Saves(Tail(trace))
    ELSE Saves(Tail(trace))

\* C1: when the authenticator raises AdditionalAuthenticationRequired with
\* partial account id P, login sets the existing subject's identifiers to P,
\* saves that subject (once, with identifiers P) to the SubjectStore, leaves
\* its authenticated flag as it was, and raises
\* AdditionalAuthenticationRequired to the caller.
C1_MultiFactorContinuation ==
    AdditionalLogin =>
        /\ sm_call.subject_after.identifiers = sm_call.outcome.account_id
        /\ sm_call.subject_after.authenticated = sm_call.subject.authenticated
        /\ Saves(sm_call.trace) =
               <<[call |-> "save", object |-> "existing",
                  subject |-> [sm_call.subject EXCEPT
                                   !.identifiers = sm_call.outcome.account_id]]>>
        /\ sm_call.store_after.identifiers = sm_call.outcome.account_id
        /\ sm_call.store_after.authenticated = sm_call.subject.authenticated
        /\ sm_call.exc.type = "AdditionalAuthenticationRequired"
        /\ sm_call.ret = None

\* a continuation that changed the identifiers of an unauthenticated subject
C1_Witness ==
    /\ AdditionalLogin
    /\ sm_call.subject.identifiers # sm_call.outcome.account_id
    /\ ~ sm_call.subject.authenticated
    /\ sm_call.subject_after.identifiers = sm_call.outcome.account_id
    /\ sm_call.exc.type = "AdditionalAuthenticationRequired"

\* ---- authenticate_account

Authenticated(result) ==
    realm_call.op = "authenticate_account" /\ realm_call.matched = result

\* C2: after an authenticate_account(T) whose credentials matched, on a realm
\* with a credentials cache, the credentials cache holds no entry for T's
\* principal.
C2_PostSuccessCacheInvalidation ==
    (Authenticated("match") /\ realm_call.cch # None)
        => credentials_cache[realm_call.token.identifier] = None

\* C3: authenticate_account(T) completes normally and returns the account
\* that get_credentials(T) gave whenever the matcher reports a match.
C3_ReturnsMatchedAccount ==
    Authenticated("match")
        => realm_call.exc = NoExc /\ realm_call.ret = realm_call.account

\* C4: authenticate_account(T) raises IncorrectCredentialsException whenever
\* the matcher reports a mismatch, also when get_credentials gave no
\* account, and then returns no account.
C4_MismatchRaisesIncorrectCredentials ==
    Authenticated("mismatch")
        => /\ realm_call.exc = "IncorrectCredentialsException"
           /\ realm_call.ret = None

\* a mismatch because there is no account, and one against a stored account
C4_Witness ==
    /\ Authenticated("mismatch")
    /\ realm_call.account = None
    /\ realm_call.exc = "IncorrectCredentialsException"

\* ---- failed login

FailedLogin == sm_call.op = "login" /\ sm_call.outcome.kind = "failed"

\* C5: when the authenticator raises an AuthenticationException, the
\* failed-login hook runs once (and with it the remember-me manager's
\* on_failed_login, when there is a manager), then the authenticator's
\* exception reaches the caller, also when the hook raised; no Subject is
\* created or saved.
C5_FailedLoginPropagates ==
    FailedLogin =>
        /\ CountCalls(sm_call.trace, "remember_me_failed_login") = 1
        /\ CountCalls(sm_call.trace, "rmm.on_failed_login")
               = IF remember_me_manager # None THEN 1 ELSE 0
        /\ sm_call.exc = Exception("AuthenticationException", None, "authenticator")
        /\ CountCalls(sm_call.trace, "do_create_subject") = 0
        /\ CountCalls(sm_call.trace, "save") = 0
        /\ sm_call.ret = None
        /\ sm_call.subject_after = sm_call.subject

\* a failed login whose hook raised
C5_Witness ==
    /\ FailedLogin
    /\ "forget_fails" \in sm_call.faults
    /\ CountCalls(sm_call.trace, "rmm.on_failed_login") = 1
    /\ sm_call.exc.type = "AuthenticationException"

\* ---- logout

LoggedOut == sm_call.op = "logout" /\ sm_call.subject # None

\* C6: if SubjectStore.delete raises during logout(subject), logout still
\* calls stop on the subject's session (once, after delete), which stops the
\* session unless stop raises too; and whatever delete and stop do, logout
\* returns without raising.
C6_LogoutResilience ==
    LoggedOut =>
        /\ Ok(sm_call)
        /\ CountCalls(sm_call.trace, "delete") = 1
        /\ sm_call.subject.session # None =>
               /\ CountCalls(sm_call.trace, "session.stop") = 1
               /\ FirstCall(sm_call.trace, "delete")
                      < FirstCall(sm_call.trace, "session.stop")
               /\ ("stop_fails" \notin sm_call.faults)
                      => sm_call.subject.session.session_id \notin sm_call.sessions_after

\* a logout in which delete and stop both raised
C6_Witness ==
    /\ LoggedOut
    /\ {"delete_fails", "stop_fails"} \subseteq sm_call.faults
    /\ CountCalls(sm_call.trace, "session.stop") = 1
    /\ Ok(sm_call)

\* ---- retrieval of the remembered identity

\* what fetching, decrypting and deserializing the stored identity raises
\* under the faults of the last call, None if nothing
RetrievalError ==
    IF "fetch_fails" \in sm_call.faults
    THEN Exception("FetchException", None, "get_remembered_encrypted_identity")
    ELSE IF sm_call.remembered_before = None THEN None
    ELSE IF fernet_decrypt(decryption_cipher_key, sm_call.remembered_before) = None
    THEN Exception("InvalidToken", None, "decrypt")
    ELSE IF "deserialize_fails" \in sm_call.faults
    THEN Exception("SerializationException", None, "deserialize")
    ELSE None

\* create_subject had to ask the remember-me manager, and the retrieval failed
CreateSubjectRetrievalFailed ==
    /\ sm_call.op = "create_subject"
    /\ remember_me_manager # None
    /\ sm_call.context.identifiers = None
    /\ RetrievalError # None

\* C7 as stated: when retrieval of a remembered identity fails while
\* create_subject resolves identifiers, the stored identity is forgotten and
\* the error propagates to the caller of create_subject.
C7_RetrievalErrorPropagates ==
    CreateSubjectRetrievalFailed =>
        /\ CountCalls(sm_call.trace, "forget_identity") = 1
        /\ sm_call.exc = RetrievalError

\* C7 as the code has it: the remember-me manager calls forget_identity once
\* (which removes the stored identity unless it fails), but
\* get_remembered_identity catches the error: create_subject raises nothing
\* and creates and saves a Subject without identifiers that is not
\* remembered, as if no identity had been stored.
C7_RetrievalErrorSwallowed ==
    CreateSubjectRetrievalFailed =>
        /\ CountCalls(sm_call.trace, "forget_identity") = 1
        /\ ("forget_fails" \notin sm_call.faults) => sm_call.remembered_after = None
        /\ Ok(sm_call)
        /\ sm_call.ret.identifiers = None
        /\ ~ sm_call.ret.remembered
        /\ CountCalls(sm_call.trace, "save") = 1
        /\ sm_call.store_after = sm_call.ret

\* a create_subject over a stored identity that does not decrypt
C7_Witness ==
    /\ CreateSubjectRetrievalFailed
    /\ RetrievalError.type = "InvalidToken"
    /\ sm_call.remembered_after = None
    /\ Ok(sm_call)

\* get_remembered_identifiers was called and the retrieval failed
RetrievalFailed ==
    sm_call.op = "rmm.get_remembered_identifiers" /\ RetrievalError # None

\* C8: if fetching, decrypting or deserializing raises in
\* get_remembered_identifiers, forget_identity is called exactly once, then
\* the original error is raised to the caller, and no identifiers are
\* returned.
C8_ForgetThenReraise ==
    RetrievalFailed =>
        /\ CountCalls(sm_call.trace, "forget_identity") = 1
        /\ sm_call.exc = RetrievalError
        /\ sm_call.ret = None

\* ---- the remember-me manager's login and logout hooks

RmmSuccessfulLogin == sm_call.op = "rmm.on_successful_login"

ForgetFirst ==
    /\ sm_call.trace # <<>>
    /\ Head(sm_call.trace).call = "forget_identity"
    /\ CountCalls(sm_call.trace, "forget_identity") = 1

\* the remember_identity calls of the last call are: one, for the new
\* account id
RemembersNewAccount ==
    /\ CountCalls(sm_call.trace, "remember_identity") = 1
    /\ sm_call.trace[FirstCall(sm_call.trace, "remember_identity")].account_id
           = sm_call.outcome

\* C9 as stated: on_successful_login always calls forget_identity first; it
\* then calls remember_identity for the new account id if and only if the
\* token requests remember-me, and otherwise does nothing further.
C9_ForgetThenRememberIffRequested ==
    RmmSuccessfulLogin =>
        /\ ForgetFirst
        /\ IF sm_call.token.is_remember_me
           THEN RemembersNewAccount
           ELSE sm_call.trace = <<Event("forget_identity")>>

\* C9 as the code has it: on_successful_login always calls forget_identity
\* first; if forget_identity raises, the error leaves on_successful_login and
\* nothing else is called; otherwise remember_identity is called for the new
\* account id if and only if the token requests remember-me, and nothing
\* further is done when it does not.
C9_ForgetThenRememberIfForgotten ==
    RmmSuccessfulLogin =>
        /\ ForgetFirst
        /\ IF "forget_fails" \in sm_call.faults
           THEN /\ sm_call.trace = <<Event("forget_identity")>>
                /\ sm_call.exc.raised_by = "forget_identity"
                /\ sm_call.remembered_after = sm_call.remembered_before
           ELSE IF sm_call.token.is_remember_me
           THEN RemembersNewAccount
           ELSE /\ sm_call.trace = <<Event("forget_identity")>>
                /\ sm_call.remembered_after = None

\* a login with a remember-me token that replaced a stored identity
C9_Witness ==
    /\ RmmSuccessfulLogin
    /\ sm_call.token.is_remember_me
    /\ sm_call.remembered_before # None
    /\ sm_call.remembered_after # None
    /\ sm_call.remembered_after.plaintext = serialized_form(sm_call.outcome)
    /\ sm_call.remembered_after # sm_call.remembered_before

\* C10: with a remember-me manager configured, a failed login and a logout
\* each call forget_identity (once, whatever the subject and the token), so
\* that, forget_identity succeeding, no remembered identity remains.
C10_ForgottenAfterFailedLoginAndLogout ==
    ((FailedLogin \/ LoggedOut) /\ remember_me_manager # None) =>
        /\ CountCalls(sm_call.trace, "forget_identity") = 1
        /\ ("forget_fails" \notin sm_call.faults) => sm_call.remembered_after = None

\* a logout that removed the identity that a login had remembered
C10_Witness ==
    /\ LoggedOut
    /\ remember_me_manager # None
    /\ sm_call.remembered_before # None
    /\ CountCalls(sm_call.trace, "forget_identity") = 1
    /\ sm_call.remembered_after = None

\* ---- permission checks

\* a call of is_permitted in which get_authorization_info gave the
\* account's authorization info
PermissionsChecked == authz_call.op = "is_permitted" /\ authz_call.info # None

\* the permissions of the authorization info that are stored under domain
StoredUnder(domain) == {q \in authz_call.info.permissions : q.domain = domain}

\* the k-th requested permission was reported as granted / as not granted
Reported(k, granted) ==
    /\ k <= Len(authz_call.ret)
    /\ authz_call.ret[k].permission = authz_call.requested[k]
    /\ authz_call.ret[k].is_permitted = granted

AllRolesChecked == authz_call.op = "has_all_roles" /\ authz_call.info # None
RolesChecked == authz_call.op = "has_role" /\ authz_call.info # None

CachedCredentialsCall ==
    /\ realm_call.op = "get_credentials"
    /\ realm_call.cch # None

\* that call found no entry for T in the cache / found one
CredentialsMiss ==
    /\ CachedCredentialsCall
    /\ realm_call.cached_before = None
    /\ realm_call.fault # "get_fails"
    /\ realm_call.exc # "RealmMisconfiguredException"
CredentialsHit ==
    /\ CachedCredentialsCall
    /\ realm_call.cached_before # None
    /\ realm_call.fault = "ok"

\* C16: with a credentials cache handler, a get_credentials(T) that misses
\* the cache calls the account store exactly once and, when it returns an
\* account, has cached that account under T's key; a get_credentials(T)
\* made while the entry is present returns the cached account without
\* calling the account store
C16_CacheHitSuppressesStore ==
    /\ CredentialsMiss =>
           /\ realm_call.store_calls = 1
           /\ (realm_call.exc = NoExc /\ realm_call.ret # None) =>
                  credentials_cache[realm_call.token.identifier] = realm_call.ret
    /\ CredentialsHit =>
           /\ realm_call.exc = NoExc
           /\ realm_call.ret = realm_call.cached_before
           /\ realm_call.store_calls = 0
           /\ credentials_cache[realm_call.token.identifier] = realm_call.cached_before

\* the account that an earlier miss has cached was returned from the cache
C16_Witness ==
    /\ CredentialsHit
    /\ realm_call.ret = realm_call.cached_before
    /\ realm_call.store_calls = 0
    /\ account_store # None
    /\ account_store[realm_call.token.identifier] = realm_call.ret

\* get_authorization_info(identifiers) was called for identifiers of which
\* the account store holds the roles and permissions
AuthorizationInfoAsked ==
    /\ authz_call.op = "get_authorization_info"
    /\ authz_call.stored # None

\* C17: get_authorization_info checks the authorization cache first; a hit
\* is returned without a store call; on a miss the info is fetched from the
\* account store with one call and returned, and with a cache handler it is
\* then in the cache under the identifiers, so that the following call is
\* served from the cache
C17_CacheFirstThenStore ==
    AuthorizationInfoAsked =>
        /\ authz_call.exc = NoExc
        /\ (authz_call.ach # None /\ authz_call.cached_before # None) =>
               /\ authz_call.ret = authz_call.cached_before
               /\ authz_call.store_calls = 0
        /\ (authz_call.ach = None \/ authz_call.cached_before = None) =>
               /\ authz_call.ret = IndexedAuthorizationInfo(authz_call.stored.roles,
                                                            authz_call.stored.permissions)
               /\ authz_call.store_calls = 1
        /\ authz_call.ach # None =>
               authorization_cache[authz_call.identifiers] = authz_call.ret

\* C18: do_clear_cache(identifiers) removes the credentials cache entry and
\* the authorization cache entry of the identifiers, so that the next
\* get_authorization_info fetches from the account store
C18_ClearCacheRemovesBothEntries ==
    authz_call.op = "do_clear_cache" =>
        /\ authz_call.exc = NoExc
        /\ credentials_cache[authz_call.identifiers] = None
        /\ authorization_cache[authz_call.identifiers] = None

\* caller c has its answer, and its call began after the grants changed and
\* do_clear_cache was called and left
AnsweredAfterClear(c) ==
    /\ callers[c].pc = "done"
    /\ callers[c].exc = NoExc
    /\ callers[c].fresh

SubjectCreated == sm_call.op = "create_subject"

\* the steps of create_subject, in the order of the code
CreateSubjectSteps ==
    <<"ensure_security_manager", "resolve_session", "resolve_identifiers",
      "do_create_subject", "save">>

\* C20: create_subject runs ensure_security_manager, then resolve_session,
\* then resolve_identifiers, then constructs the Subject from the resolved
\* context, then saves that Subject to the subject store exactly once, and
\* returns it
C20_CreateSubjectOrder ==
    SubjectCreated =>
        /\ Ok(sm_call)
        /\ \A k \in 1..Len(CreateSubjectSteps) :
               CountCalls(sm_call.trace, CreateSubjectSteps[k]) = 1
        /\ \A k \in 1..(Len(CreateSubjectSteps) - 1) :
               FirstCall(sm_call.trace, CreateSubjectSteps[k])
                   < FirstCall(sm_call.trace, CreateSubjectSteps[k + 1])
        /\ FirstCall(sm_call.trace, "ensure_security_manager") = 1
        /\ FirstCall(sm_call.trace, "save") = Len(sm_call.trace)
        /\ sm_call.ret =
               [identifiers |-> ctx_resolve_identifiers(sm_call.resolved_context),
                remembered |-> sm_call.resolved_context.remembered,
                authenticated |-> ctx_resolve_authenticated(sm_call.resolved_context),
                session |-> ctx_resolve_session(sm_call.resolved_context)]
        /\ Saves(sm_call.trace)[1].subject = sm_call.ret
        /\ sm_call.store_after = sm_call.ret

\* a Subject was created from a context that named only a session id, with
\* the session and the remembered identifiers that the steps resolved
C20_Witness ==
    /\ SubjectCreated
    /\ sm_call.context.session = None
    /\ sm_call.context.identifiers = None
    /\ sm_call.ret.session # None
    /\ sm_call.ret.remembered
    /\ sm_call.ret.identifiers # None
    /\ CountCalls(sm_call.trace, "get_session") = 1
    /\ FirstCall(sm_call.trace, "get_session")
           < FirstCall(sm_call.trace, "rmm.get_remembered_identifiers")

\* C21: create_subject works on a clone of the subject_context it is given:
\* after the call the caller's context object has the security_manager,
\* session, identifiers and remembered values it had before, whatever the
\* resolution steps have set on the clone
C21_CallerContextUntouched ==
    SubjectCreated =>
        /\ sm_call.caller_context.security_manager = sm_call.context.security_manager
        /\ sm_call.caller_context.session = sm_call.context.session
        /\ sm_call.caller_context.identifiers = sm_call.context.identifiers
        /\ sm_call.caller_context.remembered = sm_call.context.remembered
        /\ sm_call.caller_context = sm_call.context

\* the steps have set all four values on the clone of an empty context
C21_Witness ==
    /\ SubjectCreated
    /\ sm_call.context.security_manager = None
    /\ sm_call.context.session = None
    /\ sm_call.context.identifiers = None
    /\ ~ sm_call.context.remembered
    /\ sm_call.resolved_context.security_manager # None
    /\ sm_call.resolved_context.session # None
    /\ sm_call.resolved_context.identifiers # None
    /\ sm_call.resolved_context.remembered
    /\ sm_call.caller_context = sm_call.context

\* the context holds a security manager, a session and identifiers
FullyPopulated(context) ==
    /\ context.security_manager # None
    /\ context.session # None
    /\ context.identifiers # None

\* the calls that look something up for the resolver steps
Lookups(trace) ==
    CountCalls(trace, "get_session") + CountCalls(trace, "rmm.get_remembered_identifiers")

\* create_subject was given a fully populated context
ResolvedPopulated == SubjectCreated /\ FullyPopulated(sm_call.context)

\* the resolver steps run once more, on the context the call resolved and
\* in the state the call has left
SecondResolution ==
    resolve_steps([SMState EXCEPT !.context = sm_call.resolved_context], sm_call.faults)

\* C22: on a context that has security manager, session and identifiers
\* the three resolver steps change none of them (nor anything else of the
\* context) and look up neither a session nor a remembered identity; run a
\* second time they give the same context as the first time, again
\* without a lookup
C22_IdempotentResolution ==
    ResolvedPopulated =>
        /\ sm_call.resolved_context = sm_call.context
        /\ Lookups(sm_call.trace) = 0
        /\ Ok(SecondResolution)
        /\ SecondResolution.ret = sm_call.resolved_context
        /\ SecondResolution.st.context = sm_call.resolved_context
        /\ Lookups(SecondResolution.st.trace) = 0
        /\ SecondResolution.st.remembered_identity = remembered_identity
        /\ SecondResolution.st.sessions = sessions

\* a fully populated context was resolved while the session manager and
\* the remember-me store held another session key and another identity that
\* a lookup would have found
C22_Witness ==
    /\ ResolvedPopulated
    /\ remember_me_manager # None
    /\ remembered_identity # None
    /\ sm_call.context.session_id = None
    /\ sm_call.resolved_context = sm_call.context
    /\ SecondResolution.st.context = sm_call.context

\* create_subject was given a context without a session that names the id
\* of a session the session manager does not hold as valid
StaleSessionId ==
    /\ SubjectCreated
    /\ ctx_resolve_session(sm_call.context) = None
    /\ sm_call.context.session_id # None
    /\ sm_call.context.session_id.session_id \notin sm_call.sessions_after

\* C23: when the context names a session id and the session manager fails
\* with InvalidSessionException, resolve_session does not propagate it, the
\* context's session stays unset, and create_subject goes on through its
\* remaining steps and returns a Subject without session; when the context
\* names no session id the session manager is not called
C23_InvalidSessionSwallowed ==
    /\ StaleSessionId =>
           /\ CountCalls(sm_call.trace, "get_session") = 1
           /\ Ok(sm_call)
           /\ sm_call.resolved_context.session = None
           /\ FirstCall(sm_call.trace, "get_session")
                  < FirstCall(sm_call.trace, "resolve_identifiers")
           /\ CountCalls(sm_call.trace, "do_create_subject") = 1
           /\ CountCalls(sm_call.trace, "save") = 1
           /\ sm_call.ret.session = None
           /\ sm_call.store_after = sm_call.ret
    /\ (SubjectCreated /\ sm_call.context.session_id = None) =>
           CountCalls(sm_call.trace, "get_session") = 0

\* a Subject without session was created from a context that named a stale
\* session id, while the session manager held no session
C23_Witness ==
    /\ StaleSessionId
    /\ CountCalls(sm_call.trace, "get_session") = 1
    /\ Ok(sm_call)
    /\ sm_call.ret.session = None
    /\ sm_call.store_after = sm_call.ret

\* logout(None) was called
LogoutOfNone == sm_call.op = "logout" /\ sm_call.subject = None

\* C24: logout(None) raises ValueError before any effect: it calls neither
\* the remember-me logout hook nor delete nor the session's stop, and the
\* remembered identity, the subject store, the sessions and the caller's
\* subject are what they were before the call
C24_LogoutNoneRejected ==
    [][LogoutOfNone' =>
           /\ sm_call'.exc.type = "ValueError"
           /\ sm_call'.ret = None
           /\ sm_call'.trace = <<>>
           /\ remembered_identity' = remembered_identity
           /\ subject_store' = subject_store
           /\ sessions' = sessions
           /\ subject' = subject]_vars

\* logout(None) was rejected while there was a stored subject, a session
\* and a remembered identity that a logout would have removed
C24_Witness ==
    /\ LogoutOfNone
    /\ sm_call.exc.type = "ValueError"
    /\ sm_call.trace = <<>>
    /\ remember_me_manager # None
    /\ remembered_identity # None
    /\ subject_store # None
    /\ sessions # {}

\* remember_identity for account id a, with every collaborator working, in
\* the present state, and get_remembered_identifiers on the store it leaves
Remembering(a) ==
    remember_identity(SMState, subject, [is_remember_me |-> TRUE], a, {})
Retrieving(a) ==
    get_remembered_identifiers([Remembering(a).st EXCEPT !.trace = <<>>], {})

\* get_remembered_identifiers was called, with every collaborator working,
\* on a stored identity that was encrypted under the present decryption key
\* and has not been changed since
RetrievedIntact ==
    /\ sm_call.op = "rmm.get_remembered_identifiers"
    /\ sm_call.faults = {}
    /\ sm_call.remembered_before # None
    /\ sm_call.remembered_before.intact
    /\ sm_call.remembered_before.key = decryption_cipher_key

\* C25: with the decryption key equal to the encryption key,
\* remember_identity followed by get_remembered_identifiers on the same
\* store returns the identifiers that were remembered and does not call
\* forget_identity; the store keeps the identity
C25_RememberRoundTrip ==
    /\ encryption_cipher_key = decryption_cipher_key =>
           \A a \in AccountIds :
               /\ Ok(Remembering(a))
               /\ Ok(Retrieving(a))
               /\ Retrieving(a).ret = a
               /\ CountCalls(Retrieving(a).st.trace, "forget_identity") = 0
               /\ Retrieving(a).st.remembered_identity = Remembering(a).st.remembered_identity
    /\ RetrievedIntact =>
           /\ Ok(sm_call)
           /\ fernet_encrypt(sm_call.remembered_before.key, serialized_form(sm_call.ret))
                  = sm_call.remembered_before
           /\ CountCalls(sm_call.trace, "forget_identity") = 0
           /\ sm_call.remembered_after = sm_call.remembered_before

\* the identifiers that a login has remembered were retrieved, under equal
\* keys
C25_Witness ==
    /\ RetrievedIntact
    /\ encryption_cipher_key = decryption_cipher_key
    /\ sm_call.ret \in AccountIds
    /\ CountCalls(sm_call.trace, "deserialize") = 1
    /\ remembered_identity = sm_call.remembered_before

\* the values that the calls of a trace handed to remember_encrypted_identity
HandedOver(trace) ==
    {trace[k].value : k \in {n \in 1..Len(trace) :
                                trace[n].call = "remember_encrypted_identity"}}

\* the ciphertexts of serialized identifiers, as encrypted or changed since
Ciphertexts ==
    {[fernet_encrypt(k, serialized_form(a)) EXCEPT !.intact = i] :
        k \in Keys, a \in AccountIds, i \in BOOLEAN}

\* C26: every value handed to remember_encrypted_identity is the encryption
\* under the encryption key of the serialized identifiers to remember, and
\* the remembered-identity store never holds identifiers in plaintext or in
\* their serialized form: it is empty or holds a ciphertext
C26_CiphertextOnly ==
    /\ RmmSuccessfulLogin =>
           \A v \in HandedOver(sm_call.trace) :
               v = fernet_encrypt(encryption_cipher_key, serialized_form(sm_call.outcome))
    /\ remembered_identity \notin AccountIds
    /\ remembered_identity \notin {serialized_form(a) : a \in AccountIds}
    /\ remembered_identity # None => remembered_identity \in Ciphertexts

\* remember_encrypted_identity was handed a value and the store holds it
C26_Witness ==
    /\ RmmSuccessfulLogin
    /\ HandedOver(sm_call.trace) = {remembered_identity}
    /\ remembered_identity
           = fernet_encrypt(encryption_cipher_key, serialized_form(sm_call.outcome))
    /\ fernet_decrypt(encryption_cipher_key, remembered_identity)
           = serialized_form(sm_call.outcome)

\* this step is a get_credentials call on a realm without account store
\* that gets nothing from the cache: there is no cache handler, or the
\* lookup of the handler returns no account
MissWithoutStore ==
    /\ realm_call'.op = "get_credentials"
    /\ account_store = None
    /\ account_store' = account_store
    /\ credentials_cache_handler' = credentials_cache_handler
    /\ realm_call'.cch = credentials_cache_handler
    /\ \/ credentials_cache_handler = None
       \/ /\ realm_call'.fault # "get_fails"
          /\ \/ credentials_cache[realm_call'.token.identifier] = None
             \/ realm_call'.fault = "key_absent"

\* C27: get_credentials on a realm with no account store configured raises
\* RealmMisconfiguredException on a cache miss or with no cache; it does
\* not return None (no account) for that reason, and it caches nothing
C27_NoStoreIsMisconfiguration ==
    [][MissWithoutStore =>
           /\ realm_call'.exc = "RealmMisconfiguredException"
           /\ realm_call'.ret = None
           /\ credentials_cache' = credentials_cache]_vars

\* get_credentials has raised RealmMisconfiguredException on a realm that
\* has a credentials cache handler and no account store
C27_Witness ==
    /\ realm_call.op = "get_credentials"
    /\ realm_call.exc = "RealmMisconfiguredException"
    /\ realm_call.cch # None
    /\ realm_call.cached_before = None
    /\ account_store = None

\* this step is a get_credentials(T) that gets nothing from the cache and
\* asks a working account store that has no record for T
MissWithoutRecord ==
    /\ realm_call'.op = "get_credentials"
    /\ account_store # None
    /\ account_store' = account_store
    /\ credentials_cache_handler' = credentials_cache_handler
    /\ realm_call'.cch = credentials_cache_handler
    /\ account_store[realm_call'.token.identifier] = None
    /\ realm_call'.fault \notin {"get_fails", "store_unavailable"}
    /\ \/ credentials_cache_handler = None
       \/ credentials_cache[realm_call'.token.identifier] = None
       \/ realm_call'.fault = "key_absent"

\* C28: get_credentials(T) returns None (no account) without raising when
\* the account store has no record matching T, and then writes nothing to
\* the credentials cache
C28_NoRecordIsNoAccount ==
    [][MissWithoutRecord =>
           /\ realm_call'.exc = NoExc
           /\ realm_call'.ret = None
           /\ realm_call'.store_calls = 1
           /\ credentials_cache' = credentials_cache]_vars

\* get_credentials has returned no account on a realm that has a cache
\* handler and a store with accounts, none of them for the token
C28_Witness ==
    /\ realm_call.op = "get_credentials"
    /\ realm_call.exc = NoExc
    /\ realm_call.ret = None
    /\ realm_call.store_calls = 1
    /\ realm_call.cch # None
    /\ realm_call.fault = "ok"
    /\ account_store # None
    /\ account_store[realm_call.token.identifier] = None
    /\ \E i \in Identifiers : account_store[i] # None
    /\ credentials_cache[realm_call.token.identifier] = None

\* login was called and the authenticator returned an account id
SuccessfulLogin == sm_call.op = "login" /\ sm_call.outcome.kind = "account"

\* the subjects that the calls of a trace handed to the remember-me
\* manager's on_successful_login
HookSubjects(trace) ==
    {trace[k].subject : k \in {n \in 1..Len(trace) :
                                  trace[n].call = "rmm.on_successful_login"}}

\* C29: on a successful authentication login creates a new Subject through
\* create_subject, authenticated and with the account id that was
\* authenticated, saves it, and only then invokes the remember-me success
\* hook, with that new Subject; an error of the hook is caught, and login
\* returns the new Subject
C29_LoginSuccessOrder ==
    SuccessfulLogin =>
        /\ Ok(sm_call)
        /\ sm_call.ret.authenticated
        /\ sm_call.ret.identifiers = sm_call.outcome.account_id
        /\ CountCalls(sm_call.trace, "do_create_subject") = 1
        /\ CountCalls(sm_call.trace, "save") = 1
        /\ Saves(sm_call.trace)[1].subject = sm_call.ret
        /\ Saves(sm_call.trace)[1].object = "new"
        /\ sm_call.store_after = sm_call.ret
        /\ CountCalls(sm_call.trace, "remember_me_successful_login") = 1
        /\ FirstCall(sm_call.trace, "do_create_subject")
               < FirstCall(sm_call.trace, "save")
        /\ FirstCall(sm_call.trace, "save")
               < FirstCall(sm_call.trace, "remember_me_successful_login")
        /\ remember_me_manager # None =>
               /\ CountCalls(sm_call.trace, "rmm.on_successful_login") = 1
               /\ HookSubjects(sm_call.trace) = {sm_call.ret}
               /\ FirstCall(sm_call.trace, "save")
                      < FirstCall(sm_call.trace, "rmm.on_successful_login")
        /\ remember_me_manager = None =>
               CountCalls(sm_call.trace, "rmm.on_successful_login") = 0

\* a login succeeded and returned the new Subject although the remember-me
\* success hook raised
C29_Witness ==
    /\ SuccessfulLogin
    /\ remember_me_manager # None
    /\ sm_call.faults # {}
    /\ Ok(sm_call)
    /\ sm_call.ret.authenticated
    /\ sm_call.ret.identifiers = sm_call.outcome.account_id
    /\ sm_call.store_after = sm_call.ret
    /\ HookSubjects(sm_call.trace) = {sm_call.ret}

\* C30: logout(subject) runs the remember-me logout hook first, then
\* delete on the subject store, then the stop of the subject's session; an
\* error raised by the remember-me manager's on_logout is caught: it does
\* not reach the caller and prevents neither the delete nor the stop
C30_LogoutOrder ==
    LoggedOut =>
        /\ Ok(sm_call)
        /\ CountCalls(sm_call.trace, "remember_me_logout") = 1
        /\ FirstCall(sm_call.trace, "remember_me_logout") = 1
        /\ remember_me_manager # None =>
               /\ CountCalls(sm_call.trace, "rmm.on_logout") = 1
               /\ FirstCall(sm_call.trace, "rmm.on_logout")
                      < FirstCall(sm_call.trace, "delete")
        /\ remember_me_manager = None =>
               CountCalls(sm_call.trace, "rmm.on_logout") = 0
        /\ CountCalls(sm_call.trace, "delete") = 1
        /\ FirstCall(sm_call.trace, "remember_me_logout")
               < FirstCall(sm_call.trace, "delete")
        /\ ("delete_fails" \notin sm_call.faults) => sm_call.store_after = None
        /\ sm_call.subject.session # None =>
               /\ CountCalls(sm_call.trace, "session.stop") = 1
               /\ FirstCall(sm_call.trace, "session.stop") = Len(sm_call.trace)
        /\ sm_call.subject.session = None =>
               CountCalls(sm_call.trace, "session.stop") = 0

\* the remember-me hook raised in a logout that then unbound the stored
\* subject and stopped the session
C30_Witness ==
    /\ LoggedOut
    /\ remember_me_manager # None
    /\ sm_call.faults = {"forget_fails"}
    /\ sm_call.remembered_before # None
    /\ sm_call.remembered_after = sm_call.remembered_before
    /\ Ok(sm_call)
    /\ sm_call.store_after = None
    /\ sm_call.subject.session # None
    /\ sm_call.subject.session.session_id \notin sm_call.sessions_after

\* the identity that the remember-me manager returns to the last call: the
\* stored identity, decrypted and deserialized, None when there is no
\* manager, when nothing is stored or when the retrieval fails
RememberedIdentity ==
    IF remember_me_manager = None \/ sm_call.remembered_before = None
          \/ RetrievalError # None
    THEN None
    ELSE deserialized_form(fernet_decrypt(decryption_cipher_key,
                                          sm_call.remembered_before))

\* C31: resolve_identifiers never overwrites identifiers that the context
\* has (it does not ask the remember-me manager and leaves the remembered
\* flag as it is); when the context has none and the remember-me manager
\* returns an identity, the context gets that identity as identifiers and
\* remembered = True; when none is remembered, identifiers and remembered
\* flag stay as they were
C31_IdentifiersResolution ==
    SubjectCreated =>
        /\ sm_call.context.identifiers # None =>
               /\ sm_call.resolved_context.identifiers = sm_call.context.identifiers
               /\ sm_call.resolved_context.remembered = sm_call.context.remembered
               /\ CountCalls(sm_call.trace, "rmm.get_remembered_identifiers") = 0
        /\ (sm_call.context.identifiers = None /\ RememberedIdentity # None) =>
               /\ CountCalls(sm_call.trace, "rmm.get_remembered_identifiers") = 1
               /\ sm_call.resolved_context.identifiers = RememberedIdentity
               /\ sm_call.resolved_context.remembered
        /\ (sm_call.context.identifiers = None /\ RememberedIdentity = None) =>
               /\ sm_call.resolved_context.identifiers = None
               /\ sm_call.resolved_context.remembered = sm_call.context.remembered

\* a context with identifiers was resolved while the remember-me manager
\* held another identity, and kept its own
C31_Witness ==
    /\ SubjectCreated
    /\ sm_call.context.identifiers # None
    /\ RememberedIdentity # None
    /\ RememberedIdentity # sm_call.context.identifiers
    /\ sm_call.resolved_context.identifiers = sm_call.context.identifiers
    /\ ~ sm_call.resolved_context.remembered

\* the step is an authenticate_account(T) on a realm with a credentials cache
\* handler that finds no cached entry for T, fetches an account from the
\* store and cannot write it into the cache (the put fails, or no key is
\* resolved)
CacheWriteFails ==
    /\ realm_call'.op = "authenticate_account"
    /\ credentials_cache_handler # None
    /\ credentials_cache_handler' = credentials_cache_handler
    /\ realm_call'.cch = credentials_cache_handler
    /\ account_store' = account_store
    /\ realm_call'.fault \in {"put_fails", "key_absent"}
    /\ realm_call'.fault = "put_fails" =>
           credentials_cache[realm_call'.token.identifier] = None
    /\ account_store # None
    /\ account_store[realm_call'.token.identifier] # None

\* C32: a failure to write the fetched credentials into the credentials
\* cache reaches the caller of authenticate_account as
\* CacheCredentialsException; the account was fetched once, nothing is put
\* in the cache and no account is returned
C32_CacheWriteFailureSurfaces ==
    [][CacheWriteFails =>
           /\ realm_call'.exc = "CacheCredentialsException"
           /\ realm_call'.store_calls = 1
           /\ realm_call'.ret = None
           /\ realm_call'.matched = "not_called"
           /\ credentials_cache' = credentials_cache]_vars

\* an authenticate_account whose key resolver resolved no key fetched the
\* account and failed on writing it to the cache
C32_Witness ==
    /\ realm_call.op = "authenticate_account"
    /\ realm_call.cch # None
    /\ realm_call.fault = "key_absent"
    /\ realm_call.store_calls = 1
    /\ realm_call.exc = "CacheCredentialsException"
    /\ realm_call.ret = None
    /\ \A k \in Identifiers : credentials_cache[k] = None

\* C33: when the read of the credentials cache fails, get_credentials
\* proceeds without the cache: it does not fail with the read's error, it
\* asks the account store and returns what the store has
C33_ReadFailureProceedsWithoutCache ==
    (/\ realm_call.op = "get_credentials"
     /\ realm_call.cch # None
     /\ realm_call.fault = "get_fails") =>
        /\ realm_call.exc \in {NoExc, "RealmMisconfiguredException"}
        /\ realm_call.exc = NoExc => realm_call.store_calls = 1

\* the error that the authenticator raised in the last login
AuthenticatorError ==
    authenticator_authenticate_account(SMState, sm_call.outcome).exc

\* the last login raised only after update_subject_identity had run: the
\* subject and the SubjectStore hold the partial account id, written by one
\* save that follows the authenticator's call
RaisedAfterUpdate ==
    /\ CountCalls(sm_call.trace, "save") = 1
    /\ FirstCall(sm_call.trace, "authenticate_account")
           < FirstCall(sm_call.trace, "update_subject_identity")
    /\ FirstCall(sm_call.trace, "update_subject_identity")
           < FirstCall(sm_call.trace, "save")
    /\ sm_call.subject_after.identifiers = sm_call.outcome.account_id
    /\ sm_call.store_after.identifiers = sm_call.outcome.account_id

\* C34 as stated: the AdditionalAuthenticationRequired error that login
\* propagates is the authenticator's error unmodified, still carrying the
\* partial account id P, and it is raised only after update_subject_identity
\* has run
C34_ContinuationErrorUnmodified ==
    AdditionalLogin =>
        /\ sm_call.exc = AuthenticatorError
        /\ sm_call.exc.account_id = sm_call.outcome.account_id
        /\ RaisedAfterUpdate

\* C34, amended: the AdditionalAuthenticationRequired error that login
\* raises to its caller is a new error of that type raised by login itself;
\* it carries no account id (P is kept only as the subject's identifiers),
\* and it is raised only after update_subject_identity has run
C34_ContinuationErrorFresh ==
    AdditionalLogin =>
        /\ sm_call.exc = Exception("AdditionalAuthenticationRequired", None, "login")
        /\ AuthenticatorError.account_id = sm_call.outcome.account_id
        /\ sm_call.exc # AuthenticatorError
        /\ RaisedAfterUpdate

\* a login whose authenticator asked for more with partial account id P
\* raised an error without account id after the subject had got P
C34_Witness ==
    /\ AdditionalLogin
    /\ AuthenticatorError.account_id \in AccountIds
    /\ sm_call.exc.type = "AdditionalAuthenticationRequired"
    /\ sm_call.exc.account_id = None
    /\ RaisedAfterUpdate

\* is_permitted has returned pairs to a caller that asked for
\* authz_call.consumed of them
PairsYielded == authz_call.op = "is_permitted" /\ authz_call.exc = NoExc

UncachedAuthorization ==
    /\ authz_call.ach = None
    /\ \/ authz_call.op \in {"get_authorization_info", "has_all_roles"}
       \/ authz_call.op = "is_permitted" /\ authz_call.consumed > 0
       \/ authz_call.op = "has_role" /\ authz_call.consumed # {}

PersistenceFaults == {"forget_fails", "remember_fails"}

\* the last call was a login that succeeded or failed with an
\* AuthenticationException, or a logout of a subject, and no persistence
\* hook failed in it
LoginOrLogoutEvent ==
    /\ \/ sm_call.op = "login" /\ sm_call.outcome.kind \in {"account", "failed"}
       \/ LoggedOut
    /\ sm_call.faults \cap PersistenceFaults = {}

\* the last call was a successful login with a remember-me token on a
\* security manager that has a remember-me manager
RememberingLogin ==
    /\ sm_call.op = "login"
    /\ sm_call.outcome.kind = "account"
    /\ sm_call.token.is_remember_me
    /\ remember_me_manager # None

\* the last call was none of these events and is one that the program
\* makes: a login that asks for more, a rejected logout, a session start
OtherEvent ==
    \/ AdditionalLogin
    \/ LogoutOfNone
    \/ sm_call.op = "start"

\* C37: every successful or failed login and every logout whose persistence
\* hooks do not fail leaves the remembered-identity store empty, unless it
\* is a successful login with a remember-me token: that one leaves exactly
\* the ciphertext of its account id, whatever was stored before; the other
\* calls leave the store as it is. So the store holds an identity only if
\* the most recent login or logout was a successful remember-me login, and
\* then the ciphertext of that login's account id.
C37_RememberedOnlyByLatestLogin ==
    [][/\ LoginOrLogoutEvent' =>
              /\ remembered_identity' # None =>
                     /\ RememberingLogin'
                     /\ remembered_identity'
                            = fernet_encrypt(encryption_cipher_key,
                                             serialized_form(sm_call'.outcome.account_id))
              /\ (RememberingLogin' /\ sm_call'.faults = {}) =>
                     remembered_identity' # None
       /\ OtherEvent' => remembered_identity' = remembered_identity]_vars

\* a remember-me login of one account replaced the remembered identity of
\* another account
C37_Witness ==
    /\ LoginOrLogoutEvent
    /\ RememberingLogin
    /\ sm_call.remembered_before # None
    /\ sm_call.remembered_before.plaintext
           # serialized_form(sm_call.outcome.account_id)
    /\ remembered_identity
           = fernet_encrypt(encryption_cipher_key,
                            serialized_form(sm_call.outcome.account_id))

\* the calls of the login hooks, of the remember-me manager and of
\* create_subject
HookAndCreateCalls ==
    {"remember_me_successful_login", "remember_me_failed_login",
     "rmm.on_successful_login", "rmm.on_failed_login", "forget_identity",
     "remember_encrypted_identity", "do_create_subject"}

\* C38: a login that ends with AdditionalAuthenticationRequired calls
\* neither the successful-login hook nor the failed-login hook nor
\* create_subject: after the authenticator it calls update_subject_identity
\* and, in it, one save of the existing subject, the only write to the
\* SubjectStore; it leaves the remembered-identity store as it was
C38_ContinuationFrame ==
    AdditionalLogin =>
        /\ \A name \in HookAndCreateCalls : CountCalls(sm_call.trace, name) = 0
        /\ Len(sm_call.trace) = 3
        /\ sm_call.trace[1] = Event("authenticate_account")
        /\ sm_call.trace[2] = Event("update_subject_identity")
        /\ sm_call.trace[3].call = "save"
        /\ sm_call.trace[3].object = "existing"
        /\ sm_call.remembered_after = sm_call.remembered_before
        /\ remembered_identity = sm_call.remembered_before

\* a continuation on a security manager with a remember-me manager kept the
\* identity that an earlier login had remembered
C38_Witness ==
    /\ AdditionalLogin
    /\ remember_me_manager # None
    /\ sm_call.remembered_before # None
    /\ remembered_identity = sm_call.remembered_before
    /\ CountCalls(sm_call.trace, "save") = 1
    /\ CountCalls(sm_call.trace, "forget_identity") = 0

=============================================================================
